---- MODULE Spec2Model ----
\* Model of the job-completion poller of the OCF Worker SDK
\* (JobsService.Create / Get / CreateAndWait / WaitForCompletion, src/jobs.go)
\* together with the error values it produces (src/errors.go).
\*
\* Time is a discrete clock.  Strings are sequences of one-character strings,
\* so that fmt.Sprintf / fmt.Errorf are concatenations and strings.Contains is
\* a real substring search.
EXTENDS Integers, Sequences, FiniteSets, TLC

\* ---------------------------------------------------------------- bounds
\* last instant of the clock
MaxTime == 3
\* largest WaitOptions.Interval drawn by Init
MaxInterval == 2
\* largest WaitOptions.Timeout drawn by Init
MaxTimeout == 3

\* ------------------------------------------------------- program constants
\* opts == nil: Interval 5s, Timeout 10min (in seconds)
DefaultInterval == 5
DefaultTimeout == 600
StatusOK == 200
StatusCreated == 201
StatusNotFound == 404

\* ------------------------------------------------------------------ texts
\* "timeout"
TxtTimeout == <<"t","i","m","e","o","u","t">>
\* "context deadline exceeded"
TxtCtxDeadlineExceeded == <<"c","o","n","t","e","x","t"," ","d","e","a","d","l","i","n","e"," ","e","x","c","e","e","d","e","d">>
\* "context canceled"
TxtCtxCanceled == <<"c","o","n","t","e","x","t"," ","c","a","n","c","e","l","e","d">>
\* "timeout waiting for job completion"
TxtWaitTimeout == <<"t","i","m","e","o","u","t"," ","w","a","i","t","i","n","g"," ","f","o","r"," ","j","o","b"," ","c","o","m","p","l","e","t","i","o","n">>
\* "context canceled while waiting for job completion"
TxtWaitCanceled == <<"c","o","n","t","e","x","t"," ","c","a","n","c","e","l","e","d"," ","w","h","i","l","e"," ","w","a","i","t","i","n","g"," ","f","o","r"," ","j","o","b"," ","c","o","m","p","l","e","t","i","o","n">>
\* "job failed with status "
TxtJobFailedPrefix == <<"j","o","b"," ","f","a","i","l","e","d"," ","w","i","t","h"," ","s","t","a","t","u","s"," ">>
\* ": "
TxtColonSpace == <<":"," ">>
\* "failed to decode response: "
TxtDecodePrefix == <<"f","a","i","l","e","d"," ","t","o"," ","d","e","c","o","d","e"," ","r","e","s","p","o","n","s","e",":"," ">>
\* "API error "
TxtAPIErrorPrefix == <<"A","P","I"," ","e","r","r","o","r"," ">>
\* "job not found: "
TxtJobNotFoundPrefix == <<"j","o","b"," ","n","o","t"," ","f","o","u","n","d",":"," ">>
\* "http://h"
TxtBaseURL == <<"h","t","t","p",":","/","/","h">>
\* "/api/v1"
TxtApiPrefix == <<"/","a","p","i","/","v","1">>
\* "/jobs/"
TxtJobsPath == <<"/","j","o","b","s","/">>
\* "/generate"
TxtGeneratePath == <<"/","g","e","n","e","r","a","t","e">>
\* "Get ""
TxtGetOp == <<"G","e","t"," ","\"">>
\* "Post ""
TxtPostOp == <<"P","o","s","t"," ","\"">>
\* "": "
TxtQuoteColonSpace == <<"\"",":"," ">>
\* " (Client.Timeout exceeded while awaiting headers)"
TxtClientTimeoutSuffix == <<" ","(","C","l","i","e","n","t",".","T","i","m","e","o","u","t"," ","e","x","c","e","e","d","e","d"," ","w","h","i","l","e"," ","a","w","a","i","t","i","n","g"," ","h","e","a","d","e","r","s",")">>
\* "dial tcp: i/o timeout"
TxtIOTimeout == <<"d","i","a","l"," ","t","c","p",":"," ","i","/","o"," ","t","i","m","e","o","u","t">>
\* "connection refused"
TxtConnRefused == <<"c","o","n","n","e","c","t","i","o","n"," ","r","e","f","u","s","e","d">>
\* "unexpected EOF"
TxtUnexpectedEOF == <<"u","n","e","x","p","e","c","t","e","d"," ","E","O","F">>
\* "Internal Server Error"
TxtInternalServerError == <<"I","n","t","e","r","n","a","l"," ","S","e","r","v","e","r"," ","E","r","r","o","r">>
\* "Gateway Timeout"
TxtGatewayTimeout == <<"G","a","t","e","w","a","y"," ","T","i","m","e","o","u","t">>
\* "Bad Request"
TxtBadRequest == <<"B","a","d"," ","R","e","q","u","e","s","t">>
\* "{"error":""
TxtErrorBodyOpen == <<"{","\"","e","r","r","o","r","\"",":","\"">>
\* ""}"
TxtErrorBodyClose == <<"\"","}">>
\* "render crashed"
TxtMsgCrash == <<"r","e","n","d","e","r"," ","c","r","a","s","h","e","d">>
\* "upstream timeout"
TxtMsgUpstreamTimeout == <<"u","p","s","t","r","e","a","m"," ","t","i","m","e","o","u","t">>
\* "0a1b-2c3d"
TxtUUID == <<"0","a","1","b","-","2","c","3","d">>
\* "timeout-7"
TxtTimeoutJobID == <<"t","i","m","e","o","u","t","-","7">>
\* "pending"
StatusPending == <<"p","e","n","d","i","n","g">>
\* "processing"
StatusProcessing == <<"p","r","o","c","e","s","s","i","n","g">>
\* "completed"
StatusCompleted == <<"c","o","m","p","l","e","t","e","d">>
\* "failed"
StatusFailed == <<"f","a","i","l","e","d">>
\* "timeout"
StatusTimeout == <<"t","i","m","e","o","u","t">>
\* "cancelled"
StatusCancelled == <<"c","a","n","c","e","l","l","e","d">>
\* "archived": a status value the client has no constant for
StatusUnknown == <<"a","r","c","h","i","v","e","d">>

\* ---------------------------------------------------------- string helpers
\* strings.Contains
Contains(s, sub) ==
    \E i \in 0..(Len(s) - Len(sub)) : SubSeq(s, i + 1, i + Len(sub)) = sub

Digit(d) == <<"0", "1", "2", "3", "4", "5", "6", "7", "8", "9">>[d + 1]

RECURSIVE Itoa(_)
\* the %d verb on a non-negative int
Itoa(n) == IF n < 10 THEN <<Digit(n)>> ELSE Itoa(n \div 10) \o <<Digit(n % 10)>>

\* http.StatusText for the codes the modelled server answers with
StatusText(code) ==
    CASE code = 400 -> TxtBadRequest
      [] code = 500 -> TxtInternalServerError
      [] code = 504 -> TxtGatewayTimeout
      [] OTHER -> <<>>

\* ------------------------------------------------------------ error values
\* An error value: its dynamic type, the fields its Error() method prints,
\* and the sentinel reachable through Unwrap ("none" when there is none).
NoErr == [type |-> "nil", code |-> 0, msg |-> <<>>, unwrap |-> "none"]

APIError(code, message) ==
    [type |-> "APIError", code |-> code, msg |-> message, unwrap |-> "none"]

JobNotFoundError(id) ==
    [type |-> "JobNotFoundError", code |-> 0, msg |-> id, unwrap |-> "none"]

\* context.Canceled / context.DeadlineExceeded
CtxErrValue(sentinel) ==
    [type |-> "errorString", code |-> 0,
     msg |-> IF sentinel = "Canceled" THEN TxtCtxCanceled ELSE TxtCtxDeadlineExceeded,
     unwrap |-> sentinel]

\* err.Error()
ErrorText(e) ==
    CASE e.type = "APIError" -> TxtAPIErrorPrefix \o Itoa(e.code) \o TxtColonSpace \o e.msg
      [] e.type = "JobNotFoundError" -> TxtJobNotFoundPrefix \o e.msg
      [] OTHER -> e.msg

\* fmt.Errorf(prefix + "%w", e)
Errorf(prefix, e) ==
    [type |-> "wrapError", code |-> 0, msg |-> prefix \o ErrorText(e), unwrap |-> e.unwrap]

\* fmt.Errorf without %w
ErrorString(text) ==
    [type |-> "errorString", code |-> 0, msg |-> text, unwrap |-> "none"]

\* ------------------------------------------------------------------- jobs
NilJob == [nil |-> TRUE, id |-> <<>>, status |-> <<>>, error |-> <<>>]

Job(id, status, error) == [nil |-> FALSE, id |-> id, status |-> status, error |-> error]

\* ------------------------------------------------- transport and responses
\* What one HTTP round trip yields: a transport failure (net /= "ok") or an
\* HTTP response with a status code and a body.  fmt is the shape of the
\* body: "job" (a JobResponse), "message" (JSON with a message field),
\* "error" (JSON with only an error field), "plain" (not JSON).
Resp(net, code, fmt, status, text) ==
    [net |-> net, code |-> code, fmt |-> fmt, status |-> status, text |-> text]

\* no answer yet
NoResp == Resp("none", 0, "plain", <<>>, <<>>)

TransportFailure(net) == Resp(net, 0, "plain", <<>>, <<>>)

JobBody(code, status, error) == Resp("ok", code, "job", status, error)

\* the text of the error the HTTP client reports for a failed round trip
NetCauseText(net) ==
    CASE net = "canceled" -> TxtCtxCanceled
      [] net = "deadline" -> TxtCtxDeadlineExceeded
      [] net = "clienttimeout" -> TxtCtxDeadlineExceeded \o TxtClientTimeoutSuffix
      [] net = "iotimeout" -> TxtIOTimeout
      [] OTHER -> TxtConnRefused

NetCauseSentinel(net) ==
    CASE net = "canceled" -> "Canceled"
      [] net = "deadline" -> "DeadlineExceeded"
      [] net = "clienttimeout" -> "DeadlineExceeded"
      [] OTHER -> "none"

\* Client.get / Client.post: httpClient.Do fails with a *url.Error
\* `Op "URL": cause`, the URL being baseURL + "/api/v1" + path
ClientDoError(op, path, net) ==
    [type |-> "url.Error", code |-> 0,
     msg |-> op \o TxtBaseURL \o TxtApiPrefix \o path \o TxtQuoteColonSpace \o NetCauseText(net),
     unwrap |-> NetCauseSentinel(net)]

\* resp.Status, e.g. "500 Internal Server Error"
RespStatusLine(resp) == Itoa(resp.code) \o <<" ">> \o StatusText(resp.code)

\* the raw body of a response whose JSON has only an "error" field
RawErrorBody(resp) == TxtErrorBodyOpen \o resp.text \o TxtErrorBodyClose

parseAPIError(resp) ==
    IF resp.fmt = "message" /\ resp.text /= <<>>
    THEN APIError(resp.code, resp.text)
    ELSE IF resp.fmt = "error" /\ resp.text /= <<>>
    THEN APIError(resp.code, RawErrorBody(resp))
    ELSE APIError(resp.code, RespStatusLine(resp))

\* json.NewDecoder(resp.Body).Decode(&job) on a body that is not a job
DecodeError == Errorf(TxtDecodePrefix, ErrorString(TxtUnexpectedEOF))

Outcome(job, err) == [job |-> job, err |-> err]

\* JobsService.Get
Get(jobID, resp) ==
    IF resp.net /= "ok"
    THEN Outcome(NilJob, ClientDoError(TxtGetOp, TxtJobsPath \o jobID, resp.net))
    ELSE IF resp.code = StatusNotFound
    THEN Outcome(NilJob, JobNotFoundError(jobID))
    ELSE IF resp.code /= StatusOK
    THEN Outcome(NilJob, parseAPIError(resp))
    ELSE IF resp.fmt /= "job"
    THEN Outcome(NilJob, DecodeError)
    ELSE Outcome(Job(TxtUUID, resp.status, resp.text), NoErr)

\* JobsService.Create
Create(resp) ==
    IF resp.net /= "ok"
    THEN Outcome(NilJob, ClientDoError(TxtPostOp, TxtGeneratePath, resp.net))
    ELSE IF resp.code /= StatusCreated
    THEN Outcome(NilJob, parseAPIError(resp))
    ELSE IF resp.fmt /= "job"
    THEN Outcome(NilJob, DecodeError)
    ELSE Outcome(Job(TxtUUID, resp.status, resp.text), NoErr)

\* isTimeoutError with the "context deadline exceeded" test left out
isTimeoutErrorOnlyTimeoutWord(err) ==
    /\ err.type /= "nil"
    /\ Contains(ErrorText(err), TxtTimeout)

isTimeoutError(err) ==
    /\ err.type /= "nil"
    /\ \/ Contains(ErrorText(err), TxtCtxDeadlineExceeded)
       \/ Contains(ErrorText(err), TxtTimeout)

\* ------------------------------------------------------------- environment
\* the answers the remote service (or the network) can give to a status fetch
GetResponses ==
    {JobBody(200, StatusPending, <<>>),
     JobBody(200, StatusProcessing, <<>>),
     JobBody(200, StatusCancelled, <<>>),
     JobBody(200, StatusUnknown, <<>>),
     JobBody(200, <<>>, <<>>),
     JobBody(200, StatusCompleted, <<>>),
     JobBody(200, StatusFailed, TxtMsgCrash),
     JobBody(200, StatusTimeout, TxtMsgUpstreamTimeout),
     Resp("ok", 200, "plain", <<>>, <<>>),
     Resp("ok", 404, "message", <<>>, TxtMsgCrash),
     Resp("ok", 500, "message", <<>>, TxtMsgCrash),
     Resp("ok", 500, "message", <<>>, TxtMsgUpstreamTimeout),
     Resp("ok", 500, "error", <<>>, TxtMsgCrash),
     Resp("ok", 504, "plain", <<>>, <<>>),
     TransportFailure("refused"),
     TransportFailure("iotimeout"),
     TransportFailure("clienttimeout")}

\* the answers to a job submission
CreateResponses ==
    {JobBody(201, StatusPending, <<>>),
     Resp("ok", 201, "plain", <<>>, <<>>),
     Resp("ok", 400, "message", <<>>, TxtMsgCrash),
     Resp("ok", 500, "plain", <<>>, <<>>),
     TransportFailure("refused")}

\* a round trip issued with, or overtaken by, a finished caller context fails
\* with that context's error
CtxAbort(sentinel) ==
    TransportFailure(IF sentinel = "Canceled" THEN "canceled" ELSE "deadline")

\* job ids a caller may pass to WaitForCompletion
JobIDs == {TxtUUID, TxtTimeoutJobID}

\* ------------------------------------------------------------------ state
VARIABLES
    call,          \* entry point used: "WaitForCompletion" or "CreateAndWait"
    optsNil,       \* the caller passed opts == nil
    optInterval,   \* opts.Interval (0 when opts == nil)
    optTimeout,    \* opts.Timeout (0 when opts == nil)
    jobID,         \* the id polled
    createResp,    \* the answer to the submission (CreateAndWait)
    pc,            \* "idle", "call", "creating", "select", "parked", "fetch", "hung", "done"
    now,           \* the clock
    ctxErr,        \* ctx.Err(): "none", "Canceled" or "DeadlineExceeded"
    ctxDoneAt,     \* instant at which ctx was finished (-1: not yet)
    enteredAt,     \* instant at which the polling loop was entered (-1: never)
    waitActive,    \* the timer of waitCtx exists and is not released
    waitDeadline,  \* instant at which waitCtx expires
    tickerRunning, \* the ticker exists and is not stopped
    nextTick,      \* instant of the ticker's next tick
    tickPending,   \* a tick is buffered in ticker.C
    woke,          \* case that woke the goroutine parked in select
    fetches,       \* number of calls of Get
    polls,         \* the answers received by those calls, in order
    result         \* what the call returned

vars == <<call, optsNil, optInterval, optTimeout, jobID, createResp, pc, now, ctxErr, ctxDoneAt,
          enteredAt, waitActive, waitDeadline, tickerRunning, nextTick, tickPending,
          woke, fetches, polls, result>>

argVars == <<call, optsNil, optInterval, optTimeout>>
timerVars == <<waitActive, waitDeadline, tickerRunning, nextTick, enteredAt>>
ctxVars == <<ctxErr, ctxDoneAt>>

\* opts after the nil check
Interval == IF optsNil THEN DefaultInterval ELSE optInterval
Timeout == IF optsNil THEN DefaultTimeout ELSE optTimeout

\* <-waitCtx.Done() is ready
WaitCtxDone == waitActive /\ now >= waitDeadline
\* <-ctx.Done() is ready
CtxDone == ctxErr /= "none"

\* no call of the poller is under way
PollerIdle ==
    /\ call = "none"
    /\ optsNil = TRUE
    /\ optInterval = 0
    /\ optTimeout = 0
    /\ jobID = <<>>
    /\ createResp = NoResp
    /\ pc = "idle"
    /\ now = 0
    /\ ctxErr = "none"
    /\ ctxDoneAt = -1
    /\ enteredAt = -1
    /\ waitActive = FALSE
    /\ waitDeadline = 0
    /\ tickerRunning = FALSE
    /\ nextTick = 0
    /\ tickPending = FALSE
    /\ woke = "none"
    /\ fetches = 0
    /\ polls = <<>>
    /\ result = Outcome(NilJob, NoErr)

\* ------------------------------------------- state of the other components
\* GitHubDownloader.DownloadRepo
VARIABLES
    repoURL,        \* argument repoURL
    subfolder,      \* argument subfolder
    zipEntries,     \* reader.File of the downloaded archive: <<[name, isDir]>>
    dpc,            \* "idle", "call" or "done"
    downloaded      \* what DownloadRepo returned: [files, err]

fetcherVars == <<repoURL, subfolder, zipEntries, dpc, downloaded>>

\* no call of DownloadRepo is under way
FetcherIdle ==
    /\ repoURL = <<>>
    /\ subfolder = <<>>
    /\ zipEntries = <<>>
    /\ dpc = "idle"
    /\ downloaded = [files |-> <<>>, err |-> NoErr]

\* HealthService.Check, StorageService.UploadSources and UploadSourcesStream
VARIABLES
    healthResp,     \* the answer to GET /health
    health,         \* what Check returned: [health, err]
    uploadFiles,    \* the files handed to both uploads
    sent,           \* the request each upload mode sent
    answered,       \* the answer the service gave to each
    uploaded        \* what each upload returned: [nil, count, err]

serviceVars == <<healthResp, health, uploadFiles, sent, answered, uploaded>>

\* no service call was made
ServicesIdle ==
    /\ healthResp = NoResp
    /\ health = [health |-> [nil |-> TRUE, status |-> <<>>], err |-> NoErr]
    /\ uploadFiles = <<>>
    /\ sent = <<>>
    /\ answered = <<>>
    /\ uploaded = <<>>

\* Generator.Generate
VARIABLES
    gpc,            \* "idle", "start", the step under way, or "done"
    trace,          \* the stages run so far, in order, each with its error
    genFiles,       \* files, as returned by DownloadRepo
    resultArchive,  \* the entries of the result archive downloaded
    genResult       \* what Generate returned: [result, err]

genVars == <<gpc, trace, genFiles, resultArchive, genResult>>

\* Generate is not called
GenIdle ==
    /\ gpc = "idle"
    /\ trace = <<>>
    /\ genFiles = <<>>
    /\ resultArchive = <<>>
    /\ genResult = [result |-> [nil |-> TRUE], err |-> NoErr]

\* one Client used by two goroutines
VARIABLES
    client,         \* the fields of the Client: [baseURL, timeout]
    script,         \* for each goroutine, the answers the service has for its job
    loop,           \* for each goroutine, its place in WaitForCompletion
    outcome         \* for each goroutine, what WaitForCompletion returned

sharedVars == <<client, script, loop, outcome>>

\* no goroutine uses a shared Client
SharedIdle ==
    /\ client = <<>>
    /\ script = <<>>
    /\ loop = <<>>
    /\ outcome = <<>>

\* NewClient called with options
VARIABLES
    options,        \* the options handed to NewClient, in order
    httpClient,     \* the http.Client the Client holds: [timeout, transport]
    request         \* the API request sent last: [sent, authorization]

clientVars == <<options, httpClient, request>>

\* NewClient is not called with options
ClientIdle ==
    /\ options = <<>>
    /\ httpClient = <<>>
    /\ request = <<>>

\* Config.Validate and the ticker Generate starts from the Config
VARIABLES
    config,         \* the Config: [gitHubURL, timeout, waitTimeout, waitInterval]
    cpc             \* "idle", "new", "rejected", "valid", "polling" or "panic"

configVars == <<config, cpc>>

\* no Config is under validation
ConfigIdle ==
    /\ config = <<>>
    /\ cpc = "idle"

\* two DownloadRepo calls on one GitHubDownloader
VARIABLES
    dlTimeout,      \* d.httpClient.Timeout
    dl              \* for each call, its place in DownloadRepo and its locals

downloaderVars == <<dlTimeout, dl>>

\* no goroutine shares a GitHubDownloader
DownloaderIdle ==
    /\ dlTimeout = 0
    /\ dl = <<>>

\* the variables of the three components above
restVars == <<clientVars, configVars, downloaderVars>>

RestIdle == ClientIdle /\ ConfigIdle /\ DownloaderIdle

\* the variables outside the poller
outsidePoller == <<fetcherVars, serviceVars, genVars, sharedVars, restVars>>

\* every variable of the module
allVars == <<vars, outsidePoller>>

Init ==
    /\ call \in {"WaitForCompletion", "CreateAndWait"}
    /\ optsNil \in BOOLEAN
    /\ optInterval \in (IF optsNil THEN {0} ELSE 1..MaxInterval)
    /\ optTimeout \in (IF optsNil THEN {0} ELSE 1..MaxTimeout)
    /\ jobID \in (IF call = "WaitForCompletion" THEN JobIDs ELSE {<<>>})
    /\ createResp = NoResp
    /\ pc = "call"
    /\ now = 0
    /\ ctxErr = "none"
    /\ ctxDoneAt = -1
    /\ enteredAt = -1
    /\ waitActive = FALSE
    /\ waitDeadline = 0
    /\ tickerRunning = FALSE
    /\ nextTick = 0
    /\ tickPending = FALSE
    /\ woke = "none"
    /\ fetches = 0
    /\ polls = <<>>
    /\ result = Outcome(NilJob, NoErr)
    /\ FetcherIdle
    /\ ServicesIdle
    /\ GenIdle
    /\ SharedIdle
    /\ RestIdle

\* a return whose deferred ticker.Stop() is missing
ReturnLeavesTickerRunning(job, err) ==
    /\ pc' = "done"
    /\ result' = Outcome(job, err)
    /\ waitActive' = FALSE
    /\ UNCHANGED <<tickerRunning, waitDeadline, nextTick, enteredAt>>

\* return from WaitForCompletion: the deferred ticker.Stop() and cancel() run
Return(job, err) ==
    /\ pc' = "done"
    /\ result' = Outcome(job, err)
    /\ tickerRunning' = FALSE
    /\ waitActive' = FALSE
    /\ UNCHANGED <<waitDeadline, nextTick, enteredAt>>

\* EnterLoop with the deadline counted from the start of the call
EnterLoopDeadlineFromCallStart ==
    /\ waitActive' = TRUE
    /\ waitDeadline' = Timeout
    /\ tickerRunning' = TRUE
    /\ nextTick' = now + Interval
    /\ enteredAt' = now
    /\ pc' = "select"
    /\ UNCHANGED result

\* context.WithTimeout(context.Background(), opts.Timeout) and
\* time.NewTicker(opts.Interval), then the first arrival at the select
EnterLoop ==
    /\ waitActive' = TRUE
    /\ waitDeadline' = now + Timeout
    /\ tickerRunning' = TRUE
    /\ nextTick' = now + Interval
    /\ enteredAt' = now
    /\ pc' = "select"
    /\ UNCHANGED result

\* the caller invokes WaitForCompletion or CreateAndWait
Call ==
    /\ pc = "call"
    /\ IF call = "CreateAndWait"
       THEN pc' = "creating" /\ UNCHANGED <<timerVars, result>>
       ELSE EnterLoop
    /\ UNCHANGED <<argVars, jobID, createResp, now, ctxVars, tickPending, woke, fetches, polls>>

\* CreateReturn without the check of the error of s.Create
CreateReturnIgnoresError ==
    /\ pc = "creating"
    /\ \E resp \in (IF CtxDone THEN {CtxAbort(ctxErr)} ELSE CreateResponses) :
         LET created == Create(resp) IN
         /\ createResp' = resp
         /\ jobID' = created.job.id
         /\ EnterLoop
    /\ UNCHANGED <<argVars, now, ctxVars, tickPending, woke, fetches, polls>>

\* CreateAndWait: s.Create returns
CreateReturn ==
    /\ pc = "creating"
    /\ \E resp \in (IF CtxDone THEN {CtxAbort(ctxErr)} ELSE CreateResponses) :
         LET created == Create(resp) IN
         /\ createResp' = resp
         /\ IF created.err /= NoErr
            THEN /\ pc' = "done"
                 /\ result' = Outcome(NilJob, created.err)
                 /\ UNCHANGED <<timerVars, jobID>>
            ELSE /\ jobID' = created.job.id
                 /\ EnterLoop
    /\ UNCHANGED <<argVars, now, ctxVars, tickPending, woke, fetches, polls>>

\* HandleCase whose tick case leaves the tick in ticker.C
HandleCaseKeepsTick(c) ==
    CASE c = "waitCtx" ->
           /\ Return(NilJob, Errorf(TxtWaitTimeout \o TxtColonSpace, CtxErrValue("DeadlineExceeded")))
           /\ UNCHANGED <<tickPending, fetches>>
      [] c = "ctx" ->
           /\ Return(NilJob, Errorf(TxtWaitCanceled \o TxtColonSpace, CtxErrValue(ctxErr)))
           /\ UNCHANGED <<tickPending, fetches>>
      [] OTHER ->
           /\ pc' = "fetch"
           /\ fetches' = fetches + 1
           /\ UNCHANGED <<timerVars, result, tickPending>>

\* the body of one case of the select statement
HandleCase(c) ==
    CASE c = "waitCtx" ->
           /\ Return(NilJob, Errorf(TxtWaitTimeout \o TxtColonSpace, CtxErrValue("DeadlineExceeded")))
           /\ UNCHANGED <<tickPending, fetches>>
      [] c = "ctx" ->
           /\ Return(NilJob, Errorf(TxtWaitCanceled \o TxtColonSpace, CtxErrValue(ctxErr)))
           /\ UNCHANGED <<tickPending, fetches>>
      [] OTHER ->
           /\ pc' = "fetch"
           /\ tickPending' = FALSE
           /\ fetches' = fetches + 1
           /\ UNCHANGED <<timerVars, result>>

\* the cases of the select that can proceed
ReadyCases ==
    (IF WaitCtxDone THEN {"waitCtx"} ELSE {}) \cup
    (IF CtxDone THEN {"ctx"} ELSE {}) \cup
    (IF tickPending THEN {"tick"} ELSE {})

\* the goroutine arrives at the select: when several cases can proceed one of
\* them is chosen at random, when none can it parks
Select ==
    /\ pc = "select"
    /\ IF ReadyCases = {}
       THEN /\ pc' = "parked"
            /\ UNCHANGED <<timerVars, result, tickPending, fetches>>
       ELSE \E c \in ReadyCases : HandleCase(c)
    /\ UNCHANGED <<argVars, jobID, createResp, now, ctxVars, woke, polls>>

\* the goroutine parked in the select runs the case of the event that woke it
Wake ==
    /\ pc = "parked"
    /\ woke /= "none"
    /\ HandleCase(woke)
    /\ woke' = "none"
    /\ UNCHANGED <<argVars, jobID, createResp, now, ctxVars, polls>>

\* AfterGet without the case models.StatusCompleted
AfterGetKeepsPollingWhenCompleted(got) ==
    IF got.err /= NoErr
    THEN IF isTimeoutError(got.err)
         THEN pc' = "select" /\ UNCHANGED <<timerVars, result>>
         ELSE Return(NilJob, got.err)
    ELSE IF got.job.status \in {StatusFailed, StatusTimeout}
    THEN Return(got.job,
                ErrorString(TxtJobFailedPrefix \o got.job.status \o TxtColonSpace \o got.job.error))
    ELSE pc' = "select" /\ UNCHANGED <<timerVars, result>>

\* AfterGet with models.StatusTimeout missing from the failure case
AfterGetTimeoutStatusNotTerminal(got) ==
    IF got.err /= NoErr
    THEN IF isTimeoutError(got.err)
         THEN pc' = "select" /\ UNCHANGED <<timerVars, result>>
         ELSE Return(NilJob, got.err)
    ELSE IF got.job.status = StatusCompleted
    THEN Return(got.job, NoErr)
    ELSE IF got.job.status = StatusFailed
    THEN Return(got.job,
                ErrorString(TxtJobFailedPrefix \o got.job.status \o TxtColonSpace \o got.job.error))
    ELSE pc' = "select" /\ UNCHANGED <<timerVars, result>>

\* AfterGet with job.Error left out of the failure message
AfterGetDropsRemoteMessage(got) ==
    IF got.err /= NoErr
    THEN IF isTimeoutError(got.err)
         THEN pc' = "select" /\ UNCHANGED <<timerVars, result>>
         ELSE Return(NilJob, got.err)
    ELSE IF got.job.status = StatusCompleted
    THEN Return(got.job, NoErr)
    ELSE IF got.job.status \in {StatusFailed, StatusTimeout}
    THEN Return(got.job, ErrorString(TxtJobFailedPrefix \o got.job.status))
    ELSE pc' = "select" /\ UNCHANGED <<timerVars, result>>

\* AfterGet returning no snapshot with the job-failed error
AfterGetFailureWithoutSnapshot(got) ==
    IF got.err /= NoErr
    THEN IF isTimeoutError(got.err)
         THEN pc' = "select" /\ UNCHANGED <<timerVars, result>>
         ELSE Return(NilJob, got.err)
    ELSE IF got.job.status = StatusCompleted
    THEN Return(got.job, NoErr)
    ELSE IF got.job.status \in {StatusFailed, StatusTimeout}
    THEN Return(NilJob,
                ErrorString(TxtJobFailedPrefix \o got.job.status \o TxtColonSpace \o got.job.error))
    ELSE pc' = "select" /\ UNCHANGED <<timerVars, result>>

\* AfterGet with a default case that rejects a status outside the known ones
AfterGetRejectsUnknownStatus(got) ==
    IF got.err /= NoErr
    THEN IF isTimeoutError(got.err)
         THEN pc' = "select" /\ UNCHANGED <<timerVars, result>>
         ELSE Return(NilJob, got.err)
    ELSE IF got.job.status = StatusCompleted
    THEN Return(got.job, NoErr)
    ELSE IF got.job.status \in {StatusFailed, StatusTimeout}
    THEN Return(got.job,
                ErrorString(TxtJobFailedPrefix \o got.job.status \o TxtColonSpace \o got.job.error))
    ELSE IF got.job.status \in {StatusPending, StatusProcessing}
    THEN pc' = "select" /\ UNCHANGED <<timerVars, result>>
    ELSE Return(got.job,
                ErrorString(TxtJobFailedPrefix \o got.job.status \o TxtColonSpace \o got.job.error))

\* the lines after s.Get in the tick case
AfterGet(got) ==
    IF got.err /= NoErr
    THEN IF isTimeoutError(got.err)
         THEN pc' = "select" /\ UNCHANGED <<timerVars, result>>
         ELSE Return(NilJob, got.err)
    ELSE IF got.job.status = StatusCompleted
    THEN Return(got.job, NoErr)
    ELSE IF got.job.status \in {StatusFailed, StatusTimeout}
    THEN Return(got.job,
                ErrorString(TxtJobFailedPrefix \o got.job.status \o TxtColonSpace \o got.job.error))
    ELSE pc' = "select" /\ UNCHANGED <<timerVars, result>>

\* s.Get(ctx, jobID) returns and the rest of the tick case runs
FetchReturn ==
    /\ pc = "fetch"
    /\ \E resp \in (IF CtxDone THEN {CtxAbort(ctxErr)} ELSE GetResponses) :
         /\ polls' = Append(polls, resp)
         /\ AfterGet(Get(jobID, resp))
    /\ UNCHANGED <<argVars, jobID, createResp, now, ctxVars, tickPending, woke, fetches>>

\* one unit of time passes: the ticker and the timer of waitCtx may fire
Advance ==
    /\ pc \notin {"idle", "call", "done"}
    /\ now < MaxTime
    /\ now' = now + 1
    /\ LET tickFires == tickerRunning /\ now' = nextTick
           waitFires == waitActive /\ now < waitDeadline /\ now' >= waitDeadline
           fired == (IF tickFires THEN {"tick"} ELSE {}) \cup
                    (IF waitFires THEN {"waitCtx"} ELSE {})
           canWake == pc = "parked" /\ woke = "none" /\ fired /= {}
       IN /\ nextTick' = IF tickFires THEN nextTick + Interval ELSE nextTick
          /\ woke' \in (IF canWake THEN fired ELSE {woke})
          /\ tickPending' = IF tickFires /\ ~(canWake /\ woke' = "tick")
                            THEN TRUE ELSE tickPending
    /\ UNCHANGED <<argVars, jobID, createResp, pc, ctxVars, enteredAt, waitActive, waitDeadline,
                   tickerRunning, fetches, polls, result>>

\* the caller's context ends: cancel() is called or its own deadline passes
CtxEnd ==
    /\ pc \notin {"idle", "call", "done"}
    /\ ctxErr = "none"
    /\ ctxErr' \in {"Canceled", "DeadlineExceeded"}
    /\ ctxDoneAt' = now
    /\ woke' = IF pc = "parked" /\ woke = "none" THEN "ctx" ELSE woke
    /\ UNCHANGED <<argVars, jobID, createResp, pc, now, timerVars, tickPending, fetches, polls, result>>

Next ==
    \/ Call /\ UNCHANGED outsidePoller
    \/ CreateReturn /\ UNCHANGED outsidePoller
    \/ Select /\ UNCHANGED outsidePoller
    \/ Wake /\ UNCHANGED outsidePoller
    \/ FetchReturn /\ UNCHANGED outsidePoller
    \/ Advance /\ UNCHANGED outsidePoller
    \/ CtxEnd /\ UNCHANGED outsidePoller

Spec == Init /\ [][Next]_allVars

TypeOK ==
    /\ pc \in {"idle", "call", "creating", "select", "parked", "fetch", "hung", "done"}
    /\ now \in 0..MaxTime
    /\ fetches \in 0..MaxTime
    /\ Len(polls) <= fetches
    /\ fetches <= Len(polls) + 1

\* ------------------------------------------------- vocabulary of the claims
\* strings.HasPrefix
HasPrefix(s, p) == Len(s) >= Len(p) /\ SubSeq(s, 1, Len(p)) = p

\* the call has returned
Returned == pc = "done"
\* the call has returned from inside the polling loop
ReturnedFromLoop == pc = "done" /\ enteredAt >= 0

\* the error text starts with "timeout waiting for job completion"
IsWaitTimeoutError(e) == e.type /= "nil" /\ HasPrefix(ErrorText(e), TxtWaitTimeout)
\* the error text starts with "context canceled while waiting for job completion"
IsCancellationError(e) == e.type /= "nil" /\ HasPrefix(ErrorText(e), TxtWaitCanceled)

\* the answer is a decoded job snapshot
IsSnapshot(resp) == resp.net = "ok" /\ resp.code = 200 /\ resp.fmt = "job"
IsTerminalSnapshot(resp) ==
    IsSnapshot(resp) /\ resp.status \in {StatusCompleted, StatusFailed, StatusTimeout}
IsRemoteFailure(resp) == IsSnapshot(resp) /\ resp.status \in {StatusFailed, StatusTimeout}
IsInProgress(resp) == IsSnapshot(resp) /\ resp.status \in {StatusPending, StatusProcessing}
\* the answer is an HTTP 404
IsNotFoundAnswer(resp) == resp.net = "ok" /\ resp.code = 404
\* the answer is an HTTP error other than 404
IsStructuredRemoteError(resp) == resp.net = "ok" /\ resp.code \notin {200, 404}
\* the round trip failed with a request-level timeout
IsRequestTimeout(resp) == resp.net \in {"iotimeout", "clienttimeout", "deadline"}
\* the submission was refused or failed
IsCreateFailure(resp) ==
    resp.net \notin {"ok", "none"} \/ (resp.net = "ok" /\ (resp.code /= 201 \/ resp.fmt /= "job"))

\* ------------------------------------------------------------------ claims

\* C1: when the caller's context is cancelled strictly before the internal
\* wait deadline expires, WaitForCompletion never returns the wait-timeout
\* error (it returns the cancellation error).
C1_CancelBeforeDeadlineNeverTimeout ==
    (ReturnedFromLoop /\ ctxErr = "Canceled" /\ ctxDoneAt < waitDeadline)
        => ~IsWaitTimeoutError(result.err)

\* C2: with 0 < Timeout < Interval, WaitForCompletion has performed at least
\* one status fetch when it returns the wait-timeout error.
C2_TimeoutBelowIntervalStillPolls ==
    (ReturnedFromLoop /\ 0 < Timeout /\ Timeout < Interval /\ IsWaitTimeoutError(result.err))
        => fetches >= 1

\* C3: when the first N-1 status fetches are answered pending or processing
\* and the Nth completed, WaitForCompletion has performed exactly N fetches
\* and has returned the Nth snapshot with a nil error.
C3_CompletedOnNthPoll ==
    \A n \in 1..Len(polls) :
        (/\ IsSnapshot(polls[n]) /\ polls[n].status = StatusCompleted
         /\ \A i \in 1..(n - 1) : IsInProgress(polls[i]))
        => /\ Len(polls) = n
           /\ fetches = n
           /\ Returned
           /\ result.err = NoErr
           /\ result.job = Job(TxtUUID, StatusCompleted, polls[n].text)

C3_Witness ==
    /\ Returned
    /\ Len(polls) = 3
    /\ polls[1] = JobBody(200, StatusPending, <<>>)
    /\ polls[2] = JobBody(200, StatusProcessing, <<>>)
    /\ polls[3] = JobBody(200, StatusCompleted, <<>>)
    /\ result.err = NoErr

\* C4: once a status fetch has returned a snapshot with a terminal status, no
\* further fetch is issued and the result is the one that snapshot decides:
\* the snapshot itself, with a nil error exactly when it is completed.
C4_TerminalSnapshotEndsPolling ==
    \A n \in 1..Len(polls) :
        IsTerminalSnapshot(polls[n])
        => /\ Len(polls) = n
           /\ fetches = n
           /\ Returned
           /\ ~result.job.nil
           /\ result.job.status = polls[n].status
           /\ result.job.error = polls[n].text
           /\ (result.err = NoErr) <=> (polls[n].status = StatusCompleted)

C4_Witness ==
    /\ Returned
    /\ Len(polls) = 2
    /\ IsInProgress(polls[1])
    /\ polls[2] = JobBody(200, StatusTimeout, TxtMsgUpstreamTimeout)
    /\ result.err /= NoErr

\* C5: when a status fetch returns a snapshot with status failed or timeout
\* and error message M, the error returned reads
\* "job failed with status <status>: <M>" and so contains both.
C5_RemoteFailureErrorText ==
    \A n \in 1..Len(polls) :
        IsRemoteFailure(polls[n])
        => /\ Returned
           /\ ErrorText(result.err) =
                TxtJobFailedPrefix \o polls[n].status \o <<":", " ">> \o polls[n].text
           /\ Contains(ErrorText(result.err), polls[n].status)
           /\ Contains(ErrorText(result.err), polls[n].text)

C5_Witness ==
    /\ call = "CreateAndWait"
    /\ Returned
    /\ Len(polls) >= 1
    /\ polls[Len(polls)] = JobBody(200, StatusFailed, TxtMsgCrash)
    /\ Contains(ErrorText(result.err), TxtMsgCrash)

\* C6: a status fetch answered 404 ends WaitForCompletion at once with a
\* JobNotFoundError carrying the polled job id, and no further fetch.
C6_NotFoundEndsPolling ==
    \A n \in 1..Len(polls) :
        IsNotFoundAnswer(polls[n])
        => /\ Len(polls) = n
           /\ fetches = n
           /\ Returned
           /\ result.err = JobNotFoundError(jobID)

\* C7: a status fetch that fails with a request-level timeout does not end
\* the wait: nothing is returned, the timers stay armed, the loop goes back
\* to the select, and a fetch is only ever started by a tick.
C7_RequestTimeoutIsRetried ==
    [][/\ (pc = "fetch" /\ Len(polls') = Len(polls) + 1
             /\ IsRequestTimeout(polls'[Len(polls')]))
          => (pc' = "select" /\ result' = result /\ tickerRunning' /\ waitActive'
                /\ fetches' = fetches)
       /\ (fetches' > fetches) => (tickPending \/ woke = "tick")]_vars

C7_Witness ==
    /\ Len(polls) = 2
    /\ polls[1] = TransportFailure("clienttimeout")
    /\ polls[2] = TransportFailure("iotimeout")
    /\ fetches = 3
    /\ pc = "fetch"

\* C8: a status fetch answered with a structured remote error (HTTP status
\* other than 200 and 404) ends the wait with that APIError, whatever the
\* status code and the message.
C8_RemoteErrorEndsPolling ==
    \A n \in 1..Len(polls) :
        IsStructuredRemoteError(polls[n])
        => /\ Len(polls) = n
           /\ Returned
           /\ result.err.type = "APIError"
           /\ result.err.code = polls[n].code

\* C9: the internal deadline runs from the entry into the polling loop and
\* not from the caller's context: the wait-timeout error is never returned
\* before Timeout has elapsed since that entry, and a wait that ends with the
\* job still not terminal and the caller's context still live ends with the
\* wait-timeout error, which has no snapshot and is not the remote-failure error.
C9_WaitDeadlineFromLoopEntry ==
    /\ (Returned /\ IsWaitTimeoutError(result.err))
         => /\ enteredAt >= 0
            /\ now >= enteredAt + Timeout
            /\ result.job = NilJob
            /\ result.err.unwrap = "DeadlineExceeded"
            /\ ~HasPrefix(ErrorText(result.err), TxtJobFailedPrefix)
    /\ (ReturnedFromLoop /\ ~CtxDone
          /\ \A i \in 1..Len(polls) : IsSnapshot(polls[i]) /\ ~IsTerminalSnapshot(polls[i]))
         => IsWaitTimeoutError(result.err)

C9_Witness ==
    /\ call = "CreateAndWait"
    /\ Returned
    /\ enteredAt > 0
    /\ ~CtxDone
    /\ Len(polls) >= 1
    /\ IsWaitTimeoutError(result.err)

\* C10: when the submission fails inside CreateAndWait, the error of the
\* submission is returned at once: no status fetch, no ticker, no deadline timer.
C10_CreateFailureSkipsPolling ==
    IsCreateFailure(createResp)
    => /\ Returned
       /\ result = Create(createResp)
       /\ result.err /= NoErr
       /\ fetches = 0
       /\ enteredAt = -1
       /\ ~tickerRunning /\ ~waitActive /\ ~tickPending

C10_Witness ==
    /\ call = "CreateAndWait"
    /\ Returned
    /\ createResp = Resp("ok", 400, "message", <<>>, TxtMsgCrash)
    /\ result.err = APIError(400, TxtMsgCrash)

\* C11: a status fetch that returns after the caller's context has ended
\* returns the abort of that context, and the loop then either returns or
\* comes back to a select whose ctx.Done() case is ready; whenever the call
\* returns, by whatever path, the ticker is stopped and the deadline timer of
\* the wait context is released.
C11_CancelAbortsFetchAndReleasesTimers ==
    [][ /\ (pc = "fetch" /\ CtxDone /\ pc' /= "fetch")
            => /\ polls' = Append(polls, CtxAbort(ctxErr))
               /\ \/ pc' = "done" /\ result'.job = NilJob /\ result'.err /= NoErr
                  \/ pc' = "select" /\ "ctx" \in ReadyCases'
        /\ pc' = "done" => ~tickerRunning' /\ ~waitActive'
      ]_vars

C11_Witness ==
    /\ ReturnedFromLoop
    /\ ctxErr = "Canceled"
    /\ Len(polls) >= 2
    /\ IsInProgress(polls[1])
    /\ polls[Len(polls)] = CtxAbort("Canceled")
    /\ result.err = Get(jobID, CtxAbort("Canceled")).err
    /\ ~tickerRunning /\ ~waitActive

\* the last answer received by a status fetch (NoResp when there is none)
LastPoll == IF polls = <<>> THEN NoResp ELSE polls[Len(polls)]

\* the ticks the ticker has delivered since the loop was entered
TicksElapsed == IF enteredAt < 0 THEN 0 ELSE (now - enteredAt) \div Interval

\* C22: once the internal wait deadline has expired or the caller's context
\* is done, the goroutine that arrives at the select leaves it by returning
\* and starts no status fetch, even when a tick is pending.
C22_NoFetchAfterDeadline ==
    [][(pc = "select" /\ (WaitCtxDone \/ CtxDone) /\ pc' /= pc)
          => (pc' = "done" /\ fetches' = fetches)]_vars

\* C24: within one call at most one status fetch is in flight, and it is in
\* flight exactly while the goroutine is inside Get; the number of fetches
\* started never exceeds the number of ticks delivered since the loop began.
C24_OneFetchAtATime ==
    /\ fetches - Len(polls) = (IF pc = "fetch" THEN 1 ELSE 0)
    /\ fetches <= TicksElapsed

C24_Witness ==
    /\ pc = "fetch"
    /\ fetches = 3
    /\ Len(polls) = 2
    /\ TicksElapsed = 3

\* C25: a call that returned from the polling loop returned a nil error
\* exactly with a completed snapshot, a snapshot together with an error
\* exactly when the last answer was a snapshot with status failed or timeout,
\* and a nil snapshot in every other outcome; exactly one of the three holds.
C25_OutcomeShapes ==
    ReturnedFromLoop =>
        LET success == ~result.job.nil /\ result.err = NoErr
            remoteFailure == ~result.job.nil /\ result.err /= NoErr
            noSnapshot == result.job.nil /\ result.err /= NoErr
        IN /\ (result.err = NoErr) <=> (~result.job.nil /\ result.job.status = StatusCompleted)
           /\ success <=> (IsSnapshot(LastPoll) /\ LastPoll.status = StatusCompleted)
           /\ remoteFailure <=> IsRemoteFailure(LastPoll)
           /\ remoteFailure => result.job.status = LastPoll.status
           /\ noSnapshot <=> ~IsTerminalSnapshot(LastPoll)
           /\ Cardinality({k \in {"success", "remoteFailure", "noSnapshot"} :
                             \/ k = "success" /\ success
                             \/ k = "remoteFailure" /\ remoteFailure
                             \/ k = "noSnapshot" /\ noSnapshot}) = 1

C25_Witness ==
    /\ ReturnedFromLoop
    /\ ~result.job.nil
    /\ result.job.status = StatusTimeout
    /\ result.err /= NoErr
    /\ Len(polls) = 2

\* C26: a status fetch answered with a snapshot whose status is not
\* completed, failed or timeout sends the loop back to the select with
\* nothing returned and the timers armed; the call only returns from a fetch
\* that got a terminal snapshot or an error, or from the select with one of
\* the two deadlines ready.
C26_NonTerminalSnapshotContinues ==
    [][/\ (pc = "fetch" /\ Len(polls') = Len(polls) + 1
             /\ IsSnapshot(LastPoll') /\ ~IsTerminalSnapshot(LastPoll'))
          => (pc' = "select" /\ result' = result /\ tickerRunning' /\ waitActive')
       /\ (pc' = "done" /\ pc /= "done" /\ enteredAt >= 0)
          => \/ pc = "fetch" /\ (IsTerminalSnapshot(LastPoll') \/ Get(jobID, LastPoll').err /= NoErr)
             \/ pc \in {"select", "parked"} /\ (WaitCtxDone \/ CtxDone)]_vars

C26_Witness ==
    /\ pc = "select"
    /\ Len(polls) = 3
    /\ polls[1] = JobBody(200, <<>>, <<>>)
    /\ polls[2] = JobBody(200, StatusUnknown, <<>>)
    /\ polls[3] = JobBody(200, StatusCancelled, <<>>)
    /\ tickerRunning /\ waitActive

\* C27: when a status fetch was aborted by the end of the caller's context
\* and the call returned before the internal wait deadline, the error
\* returned is the cancellation error wrapping the context's error.
C27_AbortedFetchGivesCancellationError ==
    (ReturnedFromLoop /\ CtxDone /\ now < waitDeadline
       /\ polls /= <<>> /\ LastPoll = CtxAbort(ctxErr))
        => (IsCancellationError(result.err) /\ result.err.unwrap = ctxErr)

\* ================================================= GitHubDownloader

\* "https://github.com/"
TxtGitHubPrefix == <<"h","t","t","p","s",":","/","/","g","i","t","h","u","b",".","c","o","m","/">>

\* "tree"
TxtTree == <<"t","r","e","e">>

\* "main"
TxtMain == <<"m","a","i","n">>

\* "/"
TxtSlash == <<"/">>

\* "-"
TxtDash == <<"-">>

\* "w": the outputDir handed to DownloadRepo
TxtTempDir == <<"w">>

\* "URL GitHub invalide: "
TxtInvalidURLPrefix == <<"U","R","L"," ","G","i","t","H","u","b"," ","i","n","v","a","l","i","d","e",":"," ">>

\* "erreur HTTP "
TxtHTTPErrorPrefix == <<"e","r","r","e","u","r"," ","H","T","T","P"," ">>

\* "readme"
TxtReadme == <<"r","e","a","d","m","e">>

\* "license"
TxtLicense == <<"l","i","c","e","n","s","e">>

\* supportedExts
supportedExts ==
    { <<".","m","d">>,
      <<".","c","s","s">>,
      <<".","s","c","s","s">>,
      <<".","l","e","s","s">>,
      <<".","j","s">>,
      <<".","t","s">>,
      <<".","v","u","e">>,
      <<".","j","s","o","n">>,
      <<".","y","a","m","l">>,
      <<".","y","m","l">>,
      <<".","p","n","g">>,
      <<".","j","p","g">>,
      <<".","j","p","e","g">>,
      <<".","g","i","f">>,
      <<".","s","v","g">>,
      <<".","w","o","f","f">>,
      <<".","w","o","f","f","2">>,
      <<".","t","t","f">>,
      <<".","e","o","t">> }

\* the repository URLs tried: https://github.com/o, https://github.com/o/r, https://github.com/o/r/tree/main, https://github.com/o/r/tree/main/d
RepoURLs ==
    { <<"h","t","t","p","s",":","/","/","g","i","t","h","u","b",".","c","o","m","/","o">>,
      <<"h","t","t","p","s",":","/","/","g","i","t","h","u","b",".","c","o","m","/","o","/","r">>,
      <<"h","t","t","p","s",":","/","/","g","i","t","h","u","b",".","c","o","m","/","o","/","r","/","t","r","e","e","/","m","a","i","n">>,
      <<"h","t","t","p","s",":","/","/","g","i","t","h","u","b",".","c","o","m","/","o","/","r","/","t","r","e","e","/","m","a","i","n","/","d">> }

\* the values of the subfolder argument tried: "", "d", "s"
Subfolders == { <<>>, <<"d">>, <<"s">> }

\* the archive entries tried (file.Name, file.FileInfo().IsDir()):
\* r-main/, r-main/d/, r-main/d/a.md, r-main/d2/b.md, r-main/e.md, r-main/d/s/c.MD, r-main/d/t.bin, r-main/d/README
ZipEntries ==
    { [name |-> <<"r","-","m","a","i","n","/">>, isDir |-> TRUE],
      [name |-> <<"r","-","m","a","i","n","/","d","/">>, isDir |-> TRUE],
      [name |-> <<"r","-","m","a","i","n","/","d","/","a",".","m","d">>, isDir |-> FALSE],
      [name |-> <<"r","-","m","a","i","n","/","d","2","/","b",".","m","d">>, isDir |-> FALSE],
      [name |-> <<"r","-","m","a","i","n","/","e",".","m","d">>, isDir |-> FALSE],
      [name |-> <<"r","-","m","a","i","n","/","d","/","s","/","c",".","M","D">>, isDir |-> FALSE],
      [name |-> <<"r","-","m","a","i","n","/","d","/","t",".","b","i","n">>, isDir |-> FALSE],
      [name |-> <<"r","-","m","a","i","n","/","d","/","R","E","A","D","M","E">>, isDir |-> FALSE] }
\* "/archive/refs/heads/"
TxtArchivePath == <<"/","a","r","c","h","i","v","e","/","r","e","f","s","/","h","e","a","d","s","/">>
\* ".zip"
TxtZipSuffix == <<".","z","i","p">>

\* bound of the model: the number of entries of a source archive
MaxEntries == 2

\* strings.TrimPrefix
TrimPrefix(s, p) == IF HasPrefix(s, p) THEN SubSeq(s, Len(p) + 1, Len(s)) ELSE s

\* strings.Split(s, sep) for a separator of one character
RECURSIVE Split(_, _)
Split(s, sep) ==
    IF \A i \in 1..Len(s) : <<s[i]>> /= sep
    THEN <<s>>
    ELSE LET k == CHOOSE i \in 1..Len(s) :
                      <<s[i]>> = sep /\ \A j \in 1..(i - 1) : <<s[j]>> /= sep
         IN <<SubSeq(s, 1, k - 1)>> \o Split(SubSeq(s, k + 1, Len(s)), sep)

\* strings.Join(parts, sep)
RECURSIVE Join(_, _)
Join(parts, sep) ==
    IF Len(parts) = 0 THEN <<>>
    ELSE IF Len(parts) = 1 THEN parts[1]
    ELSE parts[1] \o sep \o Join(Tail(parts), sep)

\* one character of strings.ToLower
LowerChar(c) ==
    CASE c = "A" -> "a" [] c = "B" -> "b" [] c = "C" -> "c" [] c = "D" -> "d"
      [] c = "E" -> "e" [] c = "F" -> "f" [] c = "G" -> "g" [] c = "H" -> "h"
      [] c = "I" -> "i" [] c = "J" -> "j" [] c = "K" -> "k" [] c = "L" -> "l"
      [] c = "M" -> "m" [] c = "N" -> "n" [] c = "O" -> "o" [] c = "P" -> "p"
      [] c = "Q" -> "q" [] c = "R" -> "r" [] c = "S" -> "s" [] c = "T" -> "t"
      [] c = "U" -> "u" [] c = "V" -> "v" [] c = "W" -> "w" [] c = "X" -> "x"
      [] c = "Y" -> "y" [] c = "Z" -> "z" [] OTHER -> c

\* strings.ToLower
ToLower(s) == [i \in 1..Len(s) |-> LowerChar(s[i])]

\* the index at which the last element of a path starts
BaseStart(path) ==
    IF \E i \in 1..Len(path) : path[i] = "/"
    THEN 1 + CHOOSE i \in 1..Len(path) :
                 path[i] = "/" /\ \A j \in (i + 1)..Len(path) : path[j] /= "/"
    ELSE 1

\* filepath.Base, for a path that does not end with a separator
Base(path) == SubSeq(path, BaseStart(path), Len(path))

\* filepath.Ext: the suffix that begins at the last dot of the last element
Ext(path) ==
    LET b == BaseStart(path)
    IN IF \E i \in b..Len(path) : path[i] = "."
       THEN SubSeq(path,
                   CHOOSE i \in b..Len(path) :
                       path[i] = "." /\ \A j \in (i + 1)..Len(path) : path[j] /= ".",
                   Len(path))
       ELSE <<>>

\* filepath.Join of two elements that are already clean
PathJoin(dir, rel) == dir \o TxtSlash \o rel

isSlidevFile(filename) ==
    \/ ToLower(Ext(filename)) \in supportedExts
    \/ ToLower(Base(filename)) \in {TxtReadme, TxtLicense}

parseGitHubURL(url) ==
    LET parts == Split(TrimPrefix(url, TxtGitHubPrefix), TxtSlash)
        isTree == Len(parts) > 2 /\ parts[3] = TxtTree
    IN IF Len(parts) < 2
       THEN [owner |-> <<>>, repo |-> <<>>, branch |-> <<>>, subPath |-> <<>>]
       ELSE [owner |-> parts[1],
             repo |-> parts[2],
             branch |-> IF isTree /\ Len(parts) > 3 THEN parts[4] ELSE TxtMain,
             subPath |-> IF isTree /\ Len(parts) > 4
                         THEN Join(SubSeq(parts, 5, Len(parts)), TxtSlash)
                         ELSE <<>>]

\* the subPath DownloadRepo hands to extractRepo
RepoSubPath(url, sub) ==
    LET subPath == parseGitHubURL(url).subPath
    IN IF sub /= <<>>
       THEN IF subPath /= <<>> THEN subPath \o TxtSlash \o sub ELSE sub
       ELSE subPath

\* the repoPrefix DownloadRepo hands to extractRepo
RepoPrefix(url) == parseGitHubURL(url).repo \o TxtDash \o parseGitHubURL(url).branch

\* GitHubDownloader.extractRepo: the paths written, in the order of the archive
RECURSIVE extractRepo(_, _, _, _)
extractRepo(entries, outputDir, repoPrefix, subPath) ==
    IF entries = <<>> THEN <<>>
    ELSE LET file == Head(entries)
             rest == extractRepo(Tail(entries), outputDir, repoPrefix, subPath)
             inRepo == TrimPrefix(file.name, repoPrefix \o TxtSlash)
             relativePath == IF subPath /= <<>>
                             THEN TrimPrefix(TrimPrefix(inRepo, subPath), TxtSlash)
                             ELSE inRepo
         IN IF inRepo = file.name THEN rest
            ELSE IF subPath /= <<>> /\ ~HasPrefix(inRepo, subPath) THEN rest
            ELSE IF relativePath = <<>> \/ file.isDir THEN rest
            ELSE IF ~isSlidevFile(relativePath) THEN rest
            ELSE <<PathJoin(outputDir, relativePath)>> \o rest

\* the answers of github.com to the download of the archive
ZipResponses ==
    { Resp("ok", 200, "plain", <<>>, <<>>),
      Resp("ok", 404, "plain", <<>>, <<>>),
      TransportFailure("refused") }

\* the archives github.com can answer with
RECURSIVE SeqsUpTo(_, _)
SeqsUpTo(S, n) ==
    IF n = 0 THEN {<<>>}
    ELSE SeqsUpTo(S, n - 1) \cup
         {Append(q, x) : q \in {r \in SeqsUpTo(S, n - 1) : Len(r) = n - 1}, x \in S}

\* the URL of the archive
ZipURL(url) ==
    TxtGitHubPrefix \o parseGitHubURL(url).owner \o TxtSlash \o parseGitHubURL(url).repo
        \o TxtArchivePath \o parseGitHubURL(url).branch \o TxtZipSuffix

\* what DownloadRepo returns when github.com answers resp, a 200 answer
\* carrying the archive entries
DownloadRepoResult(url, outputDir, sub, resp, entries) ==
    IF parseGitHubURL(url).owner = <<>> \/ parseGitHubURL(url).repo = <<>>
    THEN [files |-> <<>>, err |-> ErrorString(TxtInvalidURLPrefix \o url)]
    ELSE IF resp.net /= "ok"
    THEN [files |-> <<>>,
          err |-> [type |-> "url.Error", code |-> 0,
                   msg |-> TxtGetOp \o ZipURL(url) \o TxtQuoteColonSpace \o NetCauseText(resp.net),
                   unwrap |-> NetCauseSentinel(resp.net)]]
    ELSE IF resp.code /= StatusOK
    THEN [files |-> <<>>, err |-> ErrorString(TxtHTTPErrorPrefix \o Itoa(resp.code))]
    ELSE [files |-> extractRepo(entries, outputDir, RepoPrefix(url), RepoSubPath(url, sub)),
          err |-> NoErr]

\* GitHubDownloader.DownloadRepo
DownloadRepo ==
    /\ dpc = "call"
    /\ dpc' = "done"
    /\ \E resp \in ZipResponses :
         \E entries \in (IF resp.net = "ok" /\ resp.code = StatusOK
                             /\ parseGitHubURL(repoURL).repo /= <<>>
                          THEN SeqsUpTo(ZipEntries, MaxEntries) ELSE {<<>>}) :
            /\ zipEntries' = entries
            /\ downloaded' = DownloadRepoResult(repoURL, TxtTempDir, subfolder, resp, entries)
    /\ UNCHANGED <<repoURL, subfolder>>

\* a caller of DownloadRepo
InitFetcher ==
    /\ PollerIdle
    /\ repoURL \in RepoURLs
    /\ subfolder \in Subfolders
    /\ zipEntries = <<>>
    /\ dpc = "call"
    /\ downloaded = [files |-> <<>>, err |-> NoErr]
    /\ ServicesIdle
    /\ GenIdle
    /\ SharedIdle
    /\ RestIdle

NextFetcher == DownloadRepo /\ UNCHANGED <<vars, serviceVars, genVars, sharedVars, restVars>>

SpecFetcher == InitFetcher /\ [][NextFetcher]_allVars

\* ============================================ HealthService, StorageService

StatusServiceUnavailable == 503

\* "/health"
TxtHealthPath == <<"/","h","e","a","l","t","h">>

\* "healthy"
TxtHealthy == <<"h","e","a","l","t","h","y">>

\* "degraded"
TxtDegraded == <<"d","e","g","r","a","d","e","d">>

\* "unhealthy"
TxtUnhealthy == <<"u","n","h","e","a","l","t","h","y">>

\* "/storage/jobs/"
TxtStoragePath == <<"/","s","t","o","r","a","g","e","/","j","o","b","s","/">>

\* "/sources"
TxtSourcesSuffix == <<"/","s","o","u","r","c","e","s">>

\* "files"
TxtFilesField == <<"f","i","l","e","s">>

\* "application/octet-stream"
TxtOctetStream == <<"a","p","p","l","i","c","a","t","i","o","n","/","o","c","t","e","t","-","s","t","r","e","a","m">>

\* "text/markdown"
TxtTextMarkdown == <<"t","e","x","t","/","m","a","r","k","d","o","w","n">>

\* "text/css"
TxtTextCSS == <<"t","e","x","t","/","c","s","s">>

\* "a.md"
TxtNameA == <<"a",".","m","d">>

\* "b.css"
TxtNameB == <<"b",".","c","s","s">>

\* ------------------------------------------------------------ HealthService
NilHealth == [nil |-> TRUE, status |-> <<>>]

\* a models.HealthResponse; the status is empty when the body had no such field
Health(status) == [nil |-> FALSE, status |-> status]

HealthBody(code, status) == Resp("ok", code, "health", status, <<>>)

\* the answers to GET /health
HealthResponses ==
    { HealthBody(200, TxtHealthy),
      HealthBody(200, TxtDegraded),
      HealthBody(503, TxtUnhealthy),
      HealthBody(503, TxtDegraded),
      HealthBody(500, TxtUnhealthy),
      Resp("ok", 200, "plain", <<>>, <<>>),
      Resp("ok", 503, "plain", <<>>, <<>>),
      Resp("ok", 400, "plain", <<>>, <<>>),
      Resp("ok", 400, "message", <<>>, TxtBadRequest),
      Resp("ok", 500, "error", <<>>, TxtMsgCrash),
      TransportFailure("refused"),
      TransportFailure("iotimeout"),
      TransportFailure("canceled") }

\* json.NewDecoder(resp.Body).Decode(&health) succeeds on every JSON object
DecodesAsJSON(resp) == resp.fmt /= "plain"

\* Check with every status accepted
CheckAcceptsEveryStatus(resp) ==
    IF resp.net /= "ok"
    THEN [health |-> NilHealth, err |-> ClientDoError(TxtGetOp, TxtHealthPath, resp.net)]
    ELSE IF ~DecodesAsJSON(resp)
    THEN [health |-> NilHealth, err |-> DecodeError]
    ELSE [health |-> Health(IF resp.fmt = "health" THEN resp.status ELSE <<>>), err |-> NoErr]

\* HealthService.Check. The decoder has read the body when parseAPIError
\* runs, so parseAPIError finds an empty body and reports resp.Status.
Check(resp) ==
    IF resp.net /= "ok"
    THEN [health |-> NilHealth, err |-> ClientDoError(TxtGetOp, TxtHealthPath, resp.net)]
    ELSE IF ~DecodesAsJSON(resp)
    THEN [health |-> NilHealth, err |-> DecodeError]
    ELSE IF resp.code /= StatusOK /\ resp.code /= StatusServiceUnavailable
    THEN [health |-> Health(IF resp.fmt = "health" THEN resp.status ELSE <<>>),
          err |-> parseAPIError(Resp("ok", resp.code, "plain", <<>>, <<>>))]
    ELSE [health |-> Health(IF resp.fmt = "health" THEN resp.status ELSE <<>>), err |-> NoErr]

\* a caller of HealthService.Check
HealthCheck ==
    /\ healthResp = NoResp
    /\ \E resp \in HealthResponses :
         /\ healthResp' = resp
         /\ health' = Check(resp)
    /\ UNCHANGED <<uploadFiles, sent, answered, uploaded>>

\* ----------------------------------------------------------- StorageService
\* bound of the model: the number of files of one upload
MaxFiles == 2

\* the files a caller uploads: name, content (bytes) and content type
FileUploads ==
    { [name |-> n, content |-> c, contentType |-> t] :
        n \in {TxtNameA, TxtNameB}, c \in {<<>>, <<7>>}, t \in {TxtTextMarkdown, TxtTextCSS} }

\* the StreamUpload of a file: its Reader yields the content
StreamUploadOf(file) ==
    [name |-> file.name, reader |-> [data |-> file.content],
     size |-> Len(file.content), contentType |-> file.contentType]

\* the part multipart.Writer.CreateFormFile(fieldname, filename) opens, with
\* the bytes written to it
FormFile(fieldname, filename, bytes) ==
    [field |-> fieldname, filename |-> filename, contentType |-> TxtOctetStream, bytes |-> bytes]

\* the endpoint of both uploads
SourcesPath(id) == TxtStoragePath \o id \o TxtSourcesSuffix

NoRequest == [path |-> <<>>, parts |-> <<>>, sent |-> FALSE]

\* the request UploadSources sends
UploadSourcesRequest(id, files) ==
    [path |-> TxtApiPrefix \o SourcesPath(id),
     parts |-> [i \in 1..Len(files) |-> FormFile(TxtFilesField, files[i].name, files[i].content)],
     sent |-> TRUE]

\* the request of a streaming upload that hands each upload's ContentType to the part
UploadSourcesStreamRequestKeepsContentType(id, uploads) ==
    [path |-> TxtApiPrefix \o SourcesPath(id),
     parts |-> [i \in 1..Len(uploads) |->
                  [FormFile(TxtFilesField, uploads[i].name, uploads[i].reader.data)
                     EXCEPT !.contentType = uploads[i].contentType]],
     sent |-> TRUE]

\* the request UploadSourcesStream sends: the goroutine copies every Reader
\* into its part and closes the writer, then the pipe
UploadSourcesStreamRequest(id, uploads) ==
    [path |-> TxtApiPrefix \o SourcesPath(id),
     parts |-> [i \in 1..Len(uploads) |->
                  FormFile(TxtFilesField, uploads[i].name, uploads[i].reader.data)],
     sent |-> TRUE]

\* a models.FileUploadResponse body
UploadBody(code, count) ==
    [net |-> "ok", code |-> code, fmt |-> "upload", status |-> <<>>, text |-> <<>>, count |-> count]

NoAnswer == NoResp @@ [count |-> 0]

\* the answers of the service to an upload of n parts
UploadAnswers(n) ==
    { UploadBody(201, c) : c \in 0..n } \cup
    { r @@ [count |-> 0] :
        r \in { Resp("ok", 201, "plain", <<>>, <<>>),
                Resp("ok", 400, "message", <<>>, TxtBadRequest),
                Resp("ok", 500, "error", <<>>, TxtMsgCrash),
                TransportFailure("refused") } }

NoUpload == [nil |-> TRUE, count |-> 0, err |-> NoErr]

\* UploadSources, from httpClient.Do on
UploadSourcesResult(id, resp) ==
    IF resp.net /= "ok"
    THEN [nil |-> TRUE, count |-> 0, err |-> ClientDoError(TxtPostOp, SourcesPath(id), resp.net)]
    ELSE IF resp.code /= StatusCreated
    THEN [nil |-> TRUE, count |-> 0, err |-> parseAPIError(resp)]
    ELSE IF ~DecodesAsJSON(resp)
    THEN [nil |-> TRUE, count |-> 0, err |-> DecodeError]
    ELSE [nil |-> FALSE, count |-> resp.count, err |-> NoErr]

\* UploadSourcesStream, from httpClient.Do on
UploadSourcesStreamResult(id, resp) ==
    IF resp.net /= "ok"
    THEN [nil |-> TRUE, count |-> 0, err |-> ClientDoError(TxtPostOp, SourcesPath(id), resp.net)]
    ELSE IF resp.code /= StatusCreated
    THEN [nil |-> TRUE, count |-> 0, err |-> parseAPIError(resp)]
    ELSE IF ~DecodesAsJSON(resp)
    THEN [nil |-> TRUE, count |-> 0, err |-> DecodeError]
    ELSE [nil |-> FALSE, count |-> resp.count, err |-> NoErr]

Modes == {"memory", "stream"}

UploadSources ==
    /\ ~sent["memory"].sent
    /\ LET req == UploadSourcesRequest(TxtUUID, uploadFiles)
       IN /\ sent' = [sent EXCEPT !["memory"] = req]
          /\ \E resp \in UploadAnswers(Len(req.parts)) :
               /\ answered' = [answered EXCEPT !["memory"] = resp]
               /\ uploaded' = [uploaded EXCEPT !["memory"] = UploadSourcesResult(TxtUUID, resp)]
    /\ UNCHANGED <<uploadFiles, healthResp, health>>

UploadSourcesStream ==
    /\ ~sent["stream"].sent
    /\ LET uploads == [i \in 1..Len(uploadFiles) |-> StreamUploadOf(uploadFiles[i])]
           req == UploadSourcesStreamRequest(TxtUUID, uploads)
       IN /\ sent' = [sent EXCEPT !["stream"] = req]
          /\ \E resp \in UploadAnswers(Len(req.parts)) :
               /\ answered' = [answered EXCEPT !["stream"] = resp]
               /\ uploaded' = [uploaded EXCEPT !["stream"] = UploadSourcesStreamResult(TxtUUID, resp)]
    /\ UNCHANGED <<uploadFiles, healthResp, health>>

\* a caller of the two services
InitServices ==
    /\ PollerIdle
    /\ FetcherIdle
    /\ uploadFiles \in SeqsUpTo(FileUploads, MaxFiles)
    /\ sent = [m \in Modes |-> NoRequest]
    /\ answered = [m \in Modes |-> NoAnswer]
    /\ uploaded = [m \in Modes |-> NoUpload]
    /\ healthResp = NoResp
    /\ health = [health |-> NilHealth, err |-> NoErr]
    /\ GenIdle
    /\ SharedIdle
    /\ RestIdle

NextServices ==
    \/ HealthCheck /\ UNCHANGED <<vars, fetcherVars, genVars, sharedVars, restVars>>
    \/ UploadSources /\ UNCHANGED <<vars, fetcherVars, genVars, sharedVars, restVars>>
    \/ UploadSourcesStream /\ UNCHANGED <<vars, fetcherVars, genVars, sharedVars, restVars>>

SpecServices == InitServices /\ [][NextServices]_allVars

\* ================================================================ Generator

\* "9e8f-7a6b"
TxtCourseID == <<"9","e","8","f","-","7","a","6","b">>

\* "/tmp"
TxtTmpDir == <<"/","t","m","p">>

\* "ocf-slidev-"
TxtTempDirPrefix == <<"o","c","f","-","s","l","i","d","e","v","-">>

\* "out"
TxtOutputDir == <<"o","u","t">>

\* "presentation"
TxtPresentation == <<"p","r","e","s","e","n","t","a","t","i","o","n">>

\* "presentation.zip"
TxtPresentationZip == <<"p","r","e","s","e","n","t","a","t","i","o","n",".","z","i","p">>

\* "index.html"
TxtIndexHTML == <<"i","n","d","e","x",".","h","t","m","l">>

\* "service indisponible: "
TxtServiceDown == <<"s","e","r","v","i","c","e"," ","i","n","d","i","s","p","o","n","i","b","l","e",":"," ">>

\* "téléchargement échoué: "
TxtFetchFailed == <<"t","é","l","é","c","h","a","r","g","e","m","e","n","t"," ","é","c","h","o","u","é",":"," ">>

\* "aucun fichier Slidev trouvé"
TxtNoFiles == <<"a","u","c","u","n"," ","f","i","c","h","i","e","r"," ","S","l","i","d","e","v"," ","t","r","o","u","v","é">>

\* "préparation uploads échouée: "
TxtPrepareFailed == <<"p","r","é","p","a","r","a","t","i","o","n"," ","u","p","l","o","a","d","s"," ","é","c","h","o","u","é","e",":"," ">>

\* "lecture fichier "
TxtReadFilePrefix == <<"l","e","c","t","u","r","e"," ","f","i","c","h","i","e","r"," ">>

\* "permission denied"
TxtPermissionDenied == <<"p","e","r","m","i","s","s","i","o","n"," ","d","e","n","i","e","d">>

\* "upload échoué: "
TxtUploadFailed == <<"u","p","l","o","a","d"," ","é","c","h","o","u","é",":"," ">>

\* "génération échouée: "
TxtGenerationFailed == <<"g","é","n","é","r","a","t","i","o","n"," ","é","c","h","o","u","é","e",":"," ">>

\* "téléchargement résultats échoué: "
TxtResultsFailed == <<"t","é","l","é","c","h","a","r","g","e","m","e","n","t"," ","r","é","s","u","l","t","a","t","s"," ","é","c","h","o","u","é",":"," ">>

\* "extraction archive: "
TxtExtractPrefix == <<"e","x","t","r","a","c","t","i","o","n"," ","a","r","c","h","i","v","e",":"," ">>

\* "zip: not a valid zip file"
TxtNotZip == <<"z","i","p",":"," ","n","o","t"," ","a"," ","v","a","l","i","d"," ","z","i","p"," ","f","i","l","e">>

\* "/themes/jobs/"
TxtThemesPath == <<"/","t","h","e","m","e","s","/","j","o","b","s","/">>

\* "/install"
TxtInstallSuffix == <<"/","i","n","s","t","a","l","l">>

\* "/storage/courses/"
TxtCoursesPath == <<"/","s","t","o","r","a","g","e","/","c","o","u","r","s","e","s","/">>

\* "/archive?compress=true&format=zip"
TxtArchiveQuery == <<"/","a","r","c","h","i","v","e","?","c","o","m","p","r","e","s","s","=","t","r","u","e","&","f","o","r","m","a","t","=","z","i","p">>

\* "https://github.com/o/r/tree/main/d"
TxtConfigURL == <<"h","t","t","p","s",":","/","/","g","i","t","h","u","b",".","c","o","m","/","o","/","r","/","t","r","e","e","/","m","a","i","n","/","d">>

\* the source archives github.com answers with: one without any Slidev file
\* (r-main/d/) and one with r-main/d/a.md and r-main/d/README
SourceArchives ==
    { <<[name |-> <<"r","-","m","a","i","n","/","d","/">>, isDir |-> TRUE]>>,
      <<[name |-> <<"r","-","m","a","i","n","/","d","/","a",".","m","d">>, isDir |-> FALSE], [name |-> <<"r","-","m","a","i","n","/","d","/","R","E","A","D","M","E">>, isDir |-> FALSE]>> }

\* the entries of a result archive: index.html, assets/, assets/app.js, dist/index.html, a/b/index.html
ResultEntries ==
    { [name |-> <<"i","n","d","e","x",".","h","t","m","l">>, isDir |-> FALSE],
      [name |-> <<"a","s","s","e","t","s","/">>, isDir |-> TRUE],
      [name |-> <<"a","s","s","e","t","s","/","a","p","p",".","j","s">>, isDir |-> FALSE],
      [name |-> <<"d","i","s","t","/","i","n","d","e","x",".","h","t","m","l">>, isDir |-> FALSE],
      [name |-> <<"a","/","b","/","i","n","d","e","x",".","h","t","m","l">>, isDir |-> FALSE] }

\* the identifiers uuid.New() yields in Generate: the job id is TxtUUID, the
\* id the service answers with, the course id is TxtCourseID
NilResult ==
    [nil |-> TRUE, outputDir |-> <<>>, indexPath |-> <<>>, archivePath |-> <<>>,
     files |-> <<>>, jobID |-> <<>>, courseID |-> <<>>]

\* tempDir of Generate
TempDir(id) == PathJoin(TxtTmpDir, TxtTempDirPrefix \o SubSeq(id, 1, 8))

\* detectContentType, for the extensions of the source archives
detectContentType(filename) ==
    CASE ToLower(Ext(filename)) = <<".", "m", "d">> -> TxtTextMarkdown
      [] ToLower(Ext(filename)) = <<".", "c", "s", "s">> -> TxtTextCSS
      [] OTHER -> TxtOctetStream

\* Generator.prepareUploads when every file can be read: the name is the path
\* without its first three elements, the content is what the disk holds
prepareUploads(files) ==
    [i \in 1..Len(files) |->
       LET path == Split(files[i], TxtSlash)
       IN [name |-> Join(SubSeq(path, 4, Len(path)), TxtSlash),
           content |-> <<7>>,
           contentType |-> detectContentType(files[i])]]

\* the answers to POST /themes/jobs/<id>/install
ThemesResponses ==
    { Resp("ok", 200, "themes", <<>>, <<>>),
      Resp("ok", 500, "message", <<>>, TxtMsgCrash),
      TransportFailure("refused") }

\* the error of ThemesService.AutoInstallForJob
AutoInstallForJob(id, resp) ==
    IF resp.net /= "ok"
    THEN ClientDoError(TxtPostOp, TxtThemesPath \o id \o TxtInstallSuffix, resp.net)
    ELSE IF resp.code /= StatusOK
    THEN parseAPIError(resp)
    ELSE IF ~DecodesAsJSON(resp)
    THEN DecodeError
    ELSE NoErr

\* the answers to GET /storage/courses/<id>/archive
ArchiveResponses ==
    { Resp("ok", 200, "zip", <<>>, <<>>),
      Resp("ok", 200, "plain", <<>>, <<>>),
      Resp("ok", 404, "message", <<>>, TxtMsgCrash),
      TransportFailure("refused") }

\* the error of ArchiveService.DownloadArchive
DownloadArchive(id, resp) ==
    IF resp.net /= "ok"
    THEN ClientDoError(TxtGetOp, TxtCoursesPath \o id \o TxtArchiveQuery, resp.net)
    ELSE IF resp.code /= StatusOK
    THEN parseAPIError(resp)
    ELSE NoErr

\* extractZipFile: the paths written, in the order of the archive
extractZipFile(entries, outputDir) ==
    LET files == SelectSeq(entries, LAMBDA e : ~e.isDir)
    IN [i \in 1..Len(files) |-> PathJoin(outputDir, files[i].name)]

\* filepath.Glob(extractDir + "/**/index.html"): Glob has no recursive "**",
\* each star matches within one path element, so the pattern matches the
\* index.html files exactly one directory below extractDir
GlobIndex(files, extractDir) ==
    { p \in {files[i] : i \in 1..Len(files)} :
        /\ HasPrefix(p, extractDir \o TxtSlash)
        /\ LET rel == Split(TrimPrefix(p, extractDir \o TxtSlash), TxtSlash)
           IN Len(rel) = 2 /\ rel[1] /= <<>> /\ rel[2] = TxtIndexHTML }

\* Generator.downloadResults. ResultEntries has one index.html one directory
\* below the root, so matches[0] is the only match.
downloadResults(id, resp, entries) ==
    IF DownloadArchive(id, resp) /= NoErr
    THEN [result |-> NilResult, err |-> DownloadArchive(id, resp)]
    ELSE IF resp.fmt /= "zip"
    THEN [result |-> NilResult, err |-> Errorf(TxtExtractPrefix, ErrorString(TxtNotZip))]
    ELSE LET extractDir == PathJoin(TxtOutputDir, TxtPresentation)
             files == extractZipFile(entries, extractDir)
             rootIndex == PathJoin(extractDir, TxtIndexHTML)
             matches == GlobIndex(files, extractDir)
         IN [result |-> [nil |-> FALSE,
                         outputDir |-> TxtOutputDir,
                         indexPath |-> IF \E i \in 1..Len(files) : files[i] = rootIndex
                                       THEN rootIndex
                                       ELSE IF matches /= {} THEN CHOOSE p \in matches : TRUE
                                       ELSE rootIndex,
                         archivePath |-> PathJoin(TxtOutputDir, TxtPresentationZip),
                         files |-> files,
                         jobID |-> <<>>,
                         courseID |-> <<>>],
             err |-> NoErr]

\* one stage of Generate: the identifiers handed to it and the error it
\* returned (the stage "submit" is entered when CreateAndWait is called, what
\* it returns is the poller's result)
Stage(name, job, course, err) == [stage |-> name, job |-> job, course |-> course, err |-> err]

\* Generate returns
GenReturn(res, err) ==
    /\ gpc' = "done"
    /\ genResult' = [result |-> res, err |-> err]

\* step 1 of Generate: checkHealth
GenHealth ==
    /\ gpc = "start"
    /\ \E resp \in HealthResponses :
         /\ trace' = Append(trace, Stage("health", <<>>, <<>>, Check(resp).err))
         /\ IF Check(resp).err /= NoErr
            THEN GenReturn(NilResult, Errorf(TxtServiceDown, Check(resp).err))
            ELSE gpc' = "fetch" /\ UNCHANGED genResult
    /\ UNCHANGED <<genFiles, resultArchive>>

\* GenFetch going on with an empty file list
GenFetchAcceptsNoFiles ==
    /\ gpc = "fetch"
    /\ \E resp \in ZipResponses, entries \in SourceArchives :
         LET got == DownloadRepoResult(TxtConfigURL, TempDir(TxtUUID), <<>>, resp, entries)
         IN /\ trace' = Append(trace, Stage("fetch", <<>>, <<>>, got.err))
            /\ genFiles' = got.files
            /\ IF got.err /= NoErr
               THEN GenReturn(NilResult, Errorf(TxtFetchFailed, got.err))
               ELSE gpc' = "prepare" /\ UNCHANGED genResult
    /\ UNCHANGED resultArchive

\* step 3 of Generate: DownloadRepo and the test of len(files)
GenFetch ==
    /\ gpc = "fetch"
    /\ \E resp \in ZipResponses, entries \in SourceArchives :
         LET got == DownloadRepoResult(TxtConfigURL, TempDir(TxtUUID), <<>>, resp, entries)
         IN /\ trace' = Append(trace, Stage("fetch", <<>>, <<>>, got.err))
            /\ genFiles' = got.files
            /\ IF got.err /= NoErr
               THEN GenReturn(NilResult, Errorf(TxtFetchFailed, got.err))
               ELSE IF Len(got.files) = 0
               THEN GenReturn(NilResult, ErrorString(TxtNoFiles))
               ELSE gpc' = "prepare" /\ UNCHANGED genResult
    /\ UNCHANGED resultArchive

\* the error of prepareUploads when os.ReadFile fails on the first file
ReadFileError(files) ==
    Errorf(TxtReadFilePrefix \o files[1] \o TxtColonSpace, ErrorString(TxtPermissionDenied))

\* step 4 of Generate: prepareUploads, os.ReadFile failing or not
GenPrepare ==
    /\ gpc = "prepare"
    /\ \E readable \in BOOLEAN :
         IF ~readable
         THEN /\ trace' = Append(trace, Stage("prepare", <<>>, <<>>, ReadFileError(genFiles)))
              /\ GenReturn(NilResult, Errorf(TxtPrepareFailed, ReadFileError(genFiles)))
         ELSE /\ trace' = Append(trace, Stage("prepare", <<>>, <<>>, NoErr))
              /\ gpc' = "upload"
              /\ UNCHANGED genResult
    /\ UNCHANGED <<genFiles, resultArchive>>

\* GenUpload going on after a failed upload
GenUploadIgnoresError ==
    /\ gpc = "upload"
    /\ LET req == UploadSourcesRequest(TxtUUID, prepareUploads(genFiles))
       IN \E resp \in UploadAnswers(Len(req.parts)) :
            trace' = Append(trace, Stage("upload", TxtUUID, <<>>, UploadSourcesResult(TxtUUID, resp).err))
    /\ gpc' = "themes"
    /\ UNCHANGED <<genFiles, resultArchive, genResult>>

\* step 5 of Generate: uploadSources
GenUpload ==
    /\ gpc = "upload"
    /\ LET req == UploadSourcesRequest(TxtUUID, prepareUploads(genFiles))
       IN \E resp \in UploadAnswers(Len(req.parts)) :
            LET err == UploadSourcesResult(TxtUUID, resp).err
            IN /\ trace' = Append(trace, Stage("upload", TxtUUID, <<>>, err))
               /\ IF err /= NoErr
                  THEN GenReturn(NilResult, Errorf(TxtUploadFailed, err))
                  ELSE gpc' = "themes" /\ UNCHANGED genResult
    /\ UNCHANGED <<genFiles, resultArchive>>

\* GenThemes returning the error of installThemes
GenThemesAbortsOnFailure ==
    /\ gpc = "themes"
    /\ \E resp \in ThemesResponses :
         LET err == AutoInstallForJob(TxtUUID, resp)
         IN /\ trace' = Append(trace, Stage("themes", TxtUUID, <<>>, err))
            /\ IF err /= NoErr
               THEN GenReturn(NilResult, err)
               ELSE gpc' = "submit" /\ UNCHANGED genResult
    /\ UNCHANGED <<genFiles, resultArchive>>

\* step 6 of Generate: installThemes, whose error is only logged
GenThemes ==
    /\ gpc = "themes"
    /\ \E resp \in ThemesResponses :
         trace' = Append(trace, Stage("themes", TxtUUID, <<>>, AutoInstallForJob(TxtUUID, resp)))
    /\ gpc' = "submit"
    /\ UNCHANGED <<genFiles, resultArchive, genResult>>

\* step 7 of Generate begins: createAndWaitJob calls Jobs.CreateAndWait with
\* the wait options of the configuration
GenSubmit ==
    /\ gpc = "submit"
    /\ pc = "idle"
    /\ trace' = Append(trace, Stage("submit", TxtUUID, TxtCourseID, NoErr))
    /\ call' = "CreateAndWait"
    /\ optsNil' = FALSE
    /\ optInterval' \in 1..MaxInterval
    /\ optTimeout' \in 1..MaxTimeout
    /\ pc' = "call"
    /\ UNCHANGED <<jobID, createResp, now, ctxVars, timerVars, tickPending, woke, fetches, polls, result>>
    /\ UNCHANGED <<gpc, genFiles, resultArchive, genResult>>

\* CreateAndWait has returned: its local variables are gone, its result, the
\* clock and the caller's context stay
PollerLocalsGone ==
    /\ pc' = "idle"
    /\ jobID' = <<>>
    /\ createResp' = NoResp
    /\ enteredAt' = -1
    /\ waitDeadline' = 0
    /\ nextTick' = 0
    /\ tickPending' = FALSE
    /\ woke' = "none"
    /\ fetches' = 0
    /\ polls' = <<>>
    /\ UNCHANGED <<argVars, now, ctxVars, waitActive, tickerRunning, result>>

\* "/logs"
TxtLogsSuffix == <<"/","l","o","g","s">>
\* "build started"
TxtLogLine == <<"b","u","i","l","d"," ","s","t","a","r","t","e","d">>

\* the answers of the service to GET /storage/jobs/{id}/logs
LogsResponses ==
    {Resp("ok", 200, "plain", <<>>, TxtLogLine),
     Resp("ok", 404, "message", <<>>, TxtMsgCrash),
     TransportFailure("refused")}

\* StorageService.GetLogs
GetLogs(id, resp) ==
    IF resp.net /= "ok"
    THEN [logs |-> <<>>,
          err |-> ClientDoError(TxtGetOp, TxtStoragePath \o id \o TxtLogsSuffix, resp.net)]
    ELSE IF resp.code /= StatusOK
    THEN [logs |-> <<>>, err |-> parseAPIError(resp)]
    ELSE [logs |-> resp.text, err |-> NoErr]

\* GenAfterWait going on to the download whatever CreateAndWait returned
GenAfterWaitIgnoresError ==
    /\ gpc = "submit"
    /\ pc = "done"
    /\ gpc' = "download"
    /\ UNCHANGED <<trace, genResult, genFiles, resultArchive>>
    /\ PollerLocalsGone

\* GenAfterWait returning the error of GetLogs when the logs cannot be fetched
GenAfterWaitReturnsLogsError ==
    /\ gpc = "submit"
    /\ pc = "done"
    /\ IF result.err /= NoErr
       THEN \E resp \in (IF CtxDone THEN {CtxAbort(ctxErr)} ELSE LogsResponses) :
              LET got == GetLogs(TxtUUID, resp)
              IN /\ trace' = Append(trace, Stage("logs", TxtUUID, <<>>, got.err))
                 /\ IF got.err /= NoErr
                    THEN GenReturn(NilResult, Errorf(TxtGenerationFailed, got.err))
                    ELSE GenReturn(NilResult, Errorf(TxtGenerationFailed, result.err))
       ELSE /\ gpc' = "download"
            /\ UNCHANGED <<trace, genResult>>
    /\ UNCHANGED <<genFiles, resultArchive>>
    /\ PollerLocalsGone

\* step 7 of Generate ends: CreateAndWait has returned; after an error the
\* logs of the job are fetched once, with the caller's context, and the error
\* of CreateAndWait is returned whether GetLogs failed or not
GenAfterWait ==
    /\ gpc = "submit"
    /\ pc = "done"
    /\ IF result.err /= NoErr
       THEN \E resp \in (IF CtxDone THEN {CtxAbort(ctxErr)} ELSE LogsResponses) :
              /\ trace' = Append(trace, Stage("logs", TxtUUID, <<>>, GetLogs(TxtUUID, resp).err))
              /\ GenReturn(NilResult, Errorf(TxtGenerationFailed, result.err))
       ELSE /\ gpc' = "download"
            /\ UNCHANGED <<trace, genResult>>
    /\ UNCHANGED <<genFiles, resultArchive>>
    /\ PollerLocalsGone

\* step 8 of Generate: downloadResults, then JobID and CourseID are set
GenDownload ==
    /\ gpc = "download"
    /\ \E resp \in ArchiveResponses :
         \E entries \in (IF resp.fmt = "zip" THEN SeqsUpTo(ResultEntries, MaxEntries) ELSE {<<>>}) :
            LET got == downloadResults(TxtCourseID, resp, entries)
            IN /\ trace' = Append(trace, Stage("download", <<>>, TxtCourseID, got.err))
               /\ resultArchive' = entries
               /\ IF got.err /= NoErr
                  THEN GenReturn(NilResult, Errorf(TxtResultsFailed, got.err))
                  ELSE GenReturn([got.result EXCEPT !.jobID = TxtUUID, !.courseID = TxtCourseID], NoErr)
    /\ UNCHANGED genFiles

\* Generate is called
InitGen ==
    /\ PollerIdle
    /\ FetcherIdle
    /\ ServicesIdle
    /\ gpc = "start"
    /\ trace = <<>>
    /\ genFiles = <<>>
    /\ resultArchive = <<>>
    /\ genResult = [result |-> NilResult, err |-> NoErr]
    /\ SharedIdle
    /\ RestIdle

outsideGen == <<fetcherVars, serviceVars, sharedVars, restVars>>

NextGen ==
    \/ GenHealth /\ UNCHANGED <<vars, outsideGen>>
    \/ GenFetch /\ UNCHANGED <<vars, outsideGen>>
    \/ GenPrepare /\ UNCHANGED <<vars, outsideGen>>
    \/ GenUpload /\ UNCHANGED <<vars, outsideGen>>
    \/ GenThemes /\ UNCHANGED <<vars, outsideGen>>
    \/ GenSubmit /\ UNCHANGED outsideGen
    \/ Next
    \/ GenAfterWait /\ UNCHANGED outsideGen
    \/ GenDownload /\ UNCHANGED <<vars, outsideGen>>

SpecGen == InitGen /\ [][NextGen]_allVars

\* the stages of Generate, in the order of its code
StageOrder == <<"health", "fetch", "prepare", "upload", "themes", "submit", "download">>

\* the context Generate puts before the error of a stage
WrapOf(stage) ==
    CASE stage = "health" -> TxtServiceDown
      [] stage = "fetch" -> TxtFetchFailed
      [] stage = "prepare" -> TxtPrepareFailed
      [] stage = "upload" -> TxtUploadFailed
      [] OTHER -> TxtResultsFailed

GenReturned == gpc = "done"

\* C12: the stages of Generate run one at a time in the order health check,
\* fetch, (preparation,) upload, theme resolution, submit/poll, download: the
\* poller runs only while the submit stage is the last one entered; a stage
\* other than theme resolution that returns an error is the last stage run,
\* and Generate has then returned no result and that error behind the stage's
\* context; after a failed submit/poll only the logs are fetched, never the
\* results.
C12_StagesInOrderAbortOnError ==
    /\ Len(trace) <= 7
    /\ \A i \in 1..Len(trace) :
         \/ trace[i].stage = StageOrder[i]
         \/ i = 7 /\ trace[i].stage = "logs"
    /\ pc /= "idle" => (gpc = "submit" /\ Len(trace) = 6)
    /\ \A i \in 1..Len(trace) :
         (trace[i].err /= NoErr /\ trace[i].stage \notin {"themes", "logs"})
         => /\ i = Len(trace)
            /\ GenReturned
            /\ genResult = [result |-> NilResult, err |-> Errorf(WrapOf(trace[i].stage), trace[i].err)]
    /\ (Len(trace) = 7 /\ trace[7].stage = "logs")
         => /\ GenReturned
            /\ result.err /= NoErr
            /\ genResult = [result |-> NilResult, err |-> Errorf(TxtGenerationFailed, result.err)]
    /\ (gpc = "download" \/ (Len(trace) = 7 /\ trace[7].stage = "download"))
         => result.err = NoErr

C12_Witness ==
    /\ GenReturned
    /\ Len(trace) = 4
    /\ trace[4].stage = "upload"
    /\ trace[4].err = APIError(400, TxtBadRequest)
    /\ HasPrefix(ErrorText(genResult.err), TxtUploadFailed)

\* C13: whatever error theme resolution returns, Generate goes on to submit
\* and poll the job, and what it finally returns is decided by the stages
\* after theme resolution alone: the poller's error behind the generation
\* context, the download's error behind the results context, or success.
C13_ThemeFailureIsAdvisory ==
    (Len(trace) >= 5 /\ trace[5].err /= NoErr)
    => /\ gpc \in {"submit", "download", "done"}
       /\ GenReturned
            => /\ Len(trace) = 7
               /\ trace[6].stage = "submit"
               /\ trace[7].stage = "logs"
                    => genResult.err = Errorf(TxtGenerationFailed, result.err)
               /\ trace[7].stage = "download"
                    => /\ result.err = NoErr
                       /\ genResult.err = IF trace[7].err = NoErr THEN NoErr
                                          ELSE Errorf(TxtResultsFailed, trace[7].err)

C13_Witness ==
    /\ GenReturned
    /\ Len(trace) = 7
    /\ trace[5].stage = "themes"
    /\ trace[5].err.type = "url.Error"
    /\ genResult.err = NoErr
    /\ ~genResult.result.nil

\* C14: when the fetch succeeds but yields no file, Generate has returned the
\* error "aucun fichier Slidev trouvé" and no result, and nothing was run
\* after the fetch: no upload, no theme resolution, no submission, no
\* download.
C14_NoFilesIsFatal ==
    (Len(trace) >= 2 /\ trace[2].err = NoErr /\ genFiles = <<>>)
    => /\ GenReturned
       /\ genResult = [result |-> NilResult, err |-> ErrorString(TxtNoFiles)]
       /\ Len(trace) = 2
       /\ pc = "idle" /\ fetches = 0 /\ createResp = NoResp

C14_Witness ==
    /\ GenReturned
    /\ Len(trace) = 2
    /\ trace[2].stage = "fetch"
    /\ trace[2].err = NoErr
    /\ genFiles = <<>>
    /\ ErrorText(genResult.err) = TxtNoFiles

\* C15: CreateAndWait returns without error only when the last answer polled
\* is a completed snapshot; when Generate returns success, CreateAndWait
\* returned the completed job without error, the Result lists the path of
\* every file of the downloaded archive, its JobID is the identifier handed
\* to upload, theme resolution and submission and its CourseID the one handed
\* to submission and download.
C15_SuccessOnlyAfterCompleted ==
    /\ (pc = "done" /\ result.err = NoErr)
         => /\ polls /= <<>>
            /\ polls[Len(polls)] = JobBody(200, StatusCompleted, <<>>)
    /\ (GenReturned /\ genResult.err = NoErr)
         => /\ result.err = NoErr
            /\ ~result.job.nil
            /\ result.job.status = StatusCompleted
            /\ ~genResult.result.nil
            /\ genResult.result.files =
                  LET kept == SelectSeq(resultArchive, LAMBDA e : ~e.isDir)
                  IN [i \in 1..Len(kept) |->
                        TxtOutputDir \o TxtSlash \o TxtPresentation \o TxtSlash \o kept[i].name]
            /\ Len(trace) = 7
            /\ genResult.result.jobID /= genResult.result.courseID
            /\ \A i \in {4, 5, 6} : trace[i].job = genResult.result.jobID
            /\ \A i \in {6, 7} : trace[i].course = genResult.result.courseID

C15_Witness ==
    /\ GenReturned
    /\ genResult.err = NoErr
    /\ Len(genResult.result.files) = 2
    /\ genResult.result.jobID = TxtUUID
    /\ genResult.result.courseID = TxtCourseID
    /\ now = 3

\* C16: when Generate succeeds on a result archive without any index.html
\* (none at the root, none below it), the Result lists every extracted file
\* and its IndexPath is empty.
C16_MissingIndexGivesEmptyPath ==
    (/\ GenReturned
     /\ genResult.err = NoErr
     /\ \A i \in 1..Len(resultArchive) : Base(resultArchive[i].name) /= TxtIndexHTML)
    => /\ Len(genResult.result.files) = Len(SelectSeq(resultArchive, LAMBDA e : ~e.isDir))
       /\ genResult.result.indexPath = <<>>

\* C18: for every list of files, the empty one included, both upload modes
\* send to the same endpoint the same parts - one per file, in the order of
\* the list, each in the field "files" with the file's name and bytes and the
\* same content type; when the service answers 201 with an upload report,
\* each mode returns the count of that report and no error; for the empty
\* list the request has no part and the count returned is 0.
C18_UploadModesEquivalent ==
    /\ (sent["memory"].sent /\ sent["stream"].sent) => sent["memory"] = sent["stream"]
    /\ \A m \in Modes :
         sent[m].sent
         => /\ sent[m].path = TxtApiPrefix \o TxtStoragePath \o TxtUUID \o TxtSourcesSuffix
            /\ Len(sent[m].parts) = Len(uploadFiles)
            /\ \A i \in 1..Len(uploadFiles) :
                 /\ sent[m].parts[i].field = TxtFilesField
                 /\ sent[m].parts[i].filename = uploadFiles[i].name
                 /\ sent[m].parts[i].bytes = uploadFiles[i].content
            /\ (answered[m].net = "ok" /\ answered[m].code = 201 /\ answered[m].fmt = "upload")
                 => /\ uploaded[m].err = NoErr
                    /\ ~uploaded[m].nil
                    /\ uploaded[m].count = answered[m].count
                    /\ uploadFiles = <<>> => uploaded[m].count = 0

C18_Witness ==
    /\ Len(uploadFiles) = 2
    /\ uploadFiles[1].name /= uploadFiles[2].name
    /\ uploadFiles[1].contentType /= uploadFiles[2].contentType
    /\ uploadFiles[1].content /= uploadFiles[2].content
    /\ \A m \in Modes : sent[m].sent /\ answered[m] = UploadBody(201, 2) /\ uploaded[m].count = 2

\* C20 as stated: Check returns a health report and no error exactly when
\* the service answers with HTTP 200 or 503; every other status and every
\* transport failure gives an error.
C20_StatusDecidesError ==
    healthResp /= NoResp
    => /\ health.err = NoErr <=> (healthResp.net = "ok" /\ healthResp.code \in {200, 503})
       /\ health.err = NoErr => ~health.health.nil

\* C20, amended: Check returns the decoded report and no error exactly when
\* the service answers with HTTP 200 or 503 and a body that decodes as JSON;
\* a body that does not decode, every other status and every transport
\* failure give an error.
C20_DecodableStatusDecidesError ==
    healthResp /= NoResp
    => /\ health.err = NoErr
            <=> /\ healthResp.net = "ok"
                /\ healthResp.code \in {200, 503}
                /\ healthResp.fmt /= "plain"
       /\ health.err = NoErr
            => /\ ~health.health.nil
               /\ healthResp.fmt = "health" => health.health.status = healthResp.status

C20_Witness ==
    /\ healthResp = HealthBody(503, TxtUnhealthy)
    /\ health.err = NoErr
    /\ health.health = Health(TxtUnhealthy)

\* C17: every path DownloadRepo returns comes from an archive entry that lies
\* under <repo>-<branch>/X/ (X the sub-folder restriction; under
\* <repo>-<branch>/ when there is none) and is that entry's path with this
\* prefix stripped; no entry outside that directory is returned.
C17_OnlyFilesUnderSubfolder ==
    (dpc = "done" /\ downloaded.err = NoErr)
    => LET X == RepoSubPath(repoURL, subfolder)
           under == RepoPrefix(repoURL) \o TxtSlash
                       \o (IF X = <<>> THEN <<>> ELSE X \o TxtSlash)
       IN \A i \in 1..Len(downloaded.files) :
            \E k \in 1..Len(zipEntries) :
               /\ HasPrefix(zipEntries[k].name, under)
               /\ downloaded.files[i] = PathJoin(TxtTempDir, TrimPrefix(zipEntries[k].name, under))

\* C28: when CreateAndWait has failed inside Generate, Generate has fetched
\* the logs of the job exactly once, has returned no result and the error of
\* CreateAndWait behind "génération échouée: " (wrapping the same sentinel)
\* whether GetLogs failed or not, and has not started the download of the results.
C28_PollFailureFetchesLogsOnce ==
    /\ (GenReturned /\ Len(trace) >= 6 /\ result.err /= NoErr)
         => /\ Len(trace) = 7
            /\ trace[7].stage = "logs"
            /\ trace[7].job = TxtUUID
            /\ Cardinality({i \in 1..Len(trace) : trace[i].stage = "logs"}) = 1
            /\ genResult.result = NilResult
            /\ genResult.err = Errorf(TxtGenerationFailed, result.err)
            /\ genResult.err.unwrap = result.err.unwrap
            /\ \A i \in 1..Len(trace) : trace[i].stage /= "download"
            /\ resultArchive = <<>>
    /\ (gpc = "submit" /\ pc = "done" /\ result.err /= NoErr)
         => \A i \in 1..Len(trace) : trace[i].stage \notin {"logs", "download"}

C28_Witness ==
    /\ GenReturned
    /\ Len(trace) = 7
    /\ trace[7].stage = "logs"
    /\ trace[7].err = APIError(404, TxtMsgCrash)
    /\ IsWaitTimeoutError(result.err)
    /\ genResult.err = Errorf(TxtGenerationFailed, result.err)

\* ===================================================== one Client, shared
\* bound of the model: the number of answers the service has for one job
MaxPolls == 2

\* the timeout NewClient gives the HTTP client, in seconds
DefaultClientTimeout == 30

\* the goroutines that share the client, and the job each one waits for
Procs == {1, 2}

JobOf(p) == IF p = 1 THEN TxtUUID ELSE TxtTimeoutJobID

\* the Client NewClient returns
NewClient == [baseURL |-> TxtBaseURL, timeout |-> DefaultClientTimeout]

\* the answers of the service to the status fetches of one job; a slow answer
\* takes longer than DefaultClientTimeout
ScriptEntries ==
    { [resp |-> JobBody(200, StatusPending, <<>>), slow |-> FALSE],
      [resp |-> JobBody(200, StatusCompleted, <<>>), slow |-> FALSE],
      [resp |-> JobBody(200, StatusCompleted, <<>>), slow |-> TRUE],
      [resp |-> Resp("ok", 500, "message", <<>>, TxtMsgCrash), slow |-> FALSE] }

\* httpClient.Do: what the caller receives when the request was sent with the
\* given http.Client.Timeout (0: no timeout)
Do(timeout, entry) ==
    IF entry.slow /\ timeout /= 0 THEN TransportFailure("clienttimeout") ELSE entry.resp

\* the tick case of WaitForCompletion on what Get returned
TickCase(got) ==
    IF got.err /= NoErr
    THEN IF isTimeoutError(got.err)
         THEN [done |-> FALSE, out |-> Outcome(NilJob, NoErr)]
         ELSE [done |-> TRUE, out |-> Outcome(NilJob, got.err)]
    ELSE IF got.job.status = StatusCompleted
    THEN [done |-> TRUE, out |-> Outcome(got.job, NoErr)]
    ELSE IF got.job.status \in {StatusFailed, StatusTimeout}
    THEN [done |-> TRUE,
          out |-> Outcome(got.job,
                          ErrorString(TxtJobFailedPrefix \o got.job.status \o TxtColonSpace \o got.job.error))]
    ELSE [done |-> FALSE, out |-> Outcome(NilJob, NoErr)]

\* the waitCtx.Done() case of WaitForCompletion
WaitTimedOut == Outcome(NilJob, Errorf(TxtWaitTimeout \o TxtColonSpace, CtxErrValue("DeadlineExceeded")))

\* a tick: Get builds its request from the client and hands it to httpClient.Do
\* with the timeout set at that moment, and writes the client's timeout
SendLiftsClientTimeout(p) ==
    /\ loop[p].pc = "tick"
    /\ loop[p].pos <= Len(script[p])
    /\ loop' = [loop EXCEPT ![p].pc = "fetch", ![p].timeout = client.timeout]
    /\ client' = [client EXCEPT !.timeout = 0]
    /\ UNCHANGED <<script, outcome>>

\* a tick: Get builds its request from the client and hands it to
\* httpClient.Do, which reads the client's timeout
Send(p) ==
    /\ loop[p].pc = "tick"
    /\ loop[p].pos <= Len(script[p])
    /\ loop' = [loop EXCEPT ![p].pc = "fetch", ![p].timeout = client.timeout]
    /\ UNCHANGED <<client, script, outcome>>

\* Get returns and the rest of the tick case runs
Receive(p) ==
    /\ loop[p].pc = "fetch"
    /\ LET d == TickCase(Get(JobOf(p), Do(loop[p].timeout, script[p][loop[p].pos])))
       IN IF d.done
          THEN /\ loop' = [loop EXCEPT ![p].pc = "done"]
               /\ outcome' = [outcome EXCEPT ![p] = d.out]
          ELSE /\ loop' = [loop EXCEPT ![p].pc = "tick", ![p].pos = @ + 1]
               /\ UNCHANGED outcome
    /\ UNCHANGED <<client, script>>

\* the service has no further answer before the deadline of the wait
Deadline(p) ==
    /\ loop[p].pc = "tick"
    /\ loop[p].pos > Len(script[p])
    /\ loop' = [loop EXCEPT ![p].pc = "done"]
    /\ outcome' = [outcome EXCEPT ![p] = WaitTimedOut]
    /\ UNCHANGED <<client, script>>

\* WaitForCompletion of one goroutine on its own, with the client of NewClient
RECURSIVE RunAlone(_, _)
RunAlone(id, answers) ==
    IF answers = <<>> THEN WaitTimedOut
    ELSE LET d == TickCase(Get(id, Do(NewClient.timeout, Head(answers))))
         IN IF d.done THEN d.out ELSE RunAlone(id, Tail(answers))

\* two goroutines call WaitForCompletion on the same client
InitShared ==
    /\ PollerIdle
    /\ FetcherIdle
    /\ ServicesIdle
    /\ GenIdle
    /\ RestIdle
    /\ client = NewClient
    /\ script \in [Procs -> SeqsUpTo(ScriptEntries, MaxPolls)]
    /\ loop = [p \in Procs |-> [pc |-> "tick", pos |-> 1, timeout |-> 0]]
    /\ outcome = [p \in Procs |-> Outcome(NilJob, NoErr)]

NextShared ==
    \E p \in Procs :
       \/ Send(p) /\ UNCHANGED <<vars, fetcherVars, serviceVars, genVars, restVars>>
       \/ Receive(p) /\ UNCHANGED <<vars, fetcherVars, serviceVars, genVars, restVars>>
       \/ Deadline(p) /\ UNCHANGED <<vars, fetcherVars, serviceVars, genVars, restVars>>

SpecShared == InitShared /\ [][NextShared]_allVars

MaxOptions == 3

\* "Bearer "
TxtBearer == <<"B","e","a","r","e","r"," ">>
\* "tok-a"
TxtTokenA == <<"t","o","k","-","a">>
\* "tok-b"
TxtTokenB == <<"t","o","k","-","b">>

\* httpClient.Transport: nil, the authTransport of WithAuth, or a transport
\* of the caller's (an *http.Transport, say)
NilTransport == [kind |-> "nil", token |-> <<>>]

authTransport(token) == [kind |-> "auth", token |-> token]

CustomTransport == [kind |-> "custom", token |-> <<>>]

\* &http.Client{Timeout: timeout, Transport: transport}
HTTPClient(timeout, transport) == [timeout |-> timeout, transport |-> transport]

\* the options a caller may hand to NewClient
Options ==
    {[name |-> "WithTimeout", timeout |-> d, token |-> <<>>, client |-> HTTPClient(0, NilTransport)] :
        d \in {0, 5}}
    \cup
    {[name |-> "WithAuth", timeout |-> 0, token |-> t, client |-> HTTPClient(0, NilTransport)] :
        t \in {TxtTokenA, TxtTokenB}}
    \cup
    {[name |-> "WithHTTPClient", timeout |-> 0, token |-> <<>>, client |-> h] :
        h \in {HTTPClient(0, NilTransport), HTTPClient(10, CustomTransport)}}

\* the effect of each option on c.httpClient
WithTimeout(c, timeout) == [c EXCEPT !.timeout = timeout]

WithAuth(c, token) ==
    IF c.transport.kind = "nil" THEN [c EXCEPT !.transport = authTransport(token)] ELSE c

WithHTTPClient(c, h) == h

\* opt(client)
ApplyOption(c, opt) ==
    CASE opt.name = "WithTimeout" -> WithTimeout(c, opt.timeout)
      [] opt.name = "WithAuth" -> WithAuth(c, opt.token)
      [] OTHER -> WithHTTPClient(c, opt.client)

\* for _, opt := range opts { opt(client) }
RECURSIVE ApplyOptions(_, _)
ApplyOptions(c, opts) ==
    IF opts = <<>> THEN c ELSE ApplyOptions(ApplyOption(c, Head(opts)), Tail(opts))

\* the http.Client of the Client NewClient(baseURL, opts...) returns
NewClientWith(opts) == ApplyOptions(HTTPClient(DefaultClientTimeout, NilTransport), opts)

\* the Authorization header of a request that went through c.httpClient.Do:
\* authTransport.RoundTrip sets it, no other transport does
RoundTrip(c) ==
    IF c.transport.kind = "auth" THEN TxtBearer \o c.transport.token ELSE <<>>

NoRequestSent == [state |-> "new", authorization |-> <<>>]

\* NewClient runs its options
NewClientCall ==
    /\ request.state = "new"
    /\ httpClient' = NewClientWith(options)
    /\ request' = [request EXCEPT !.state = "built"]
    /\ UNCHANGED options

\* Client.get / Client.post: the request goes through c.httpClient.Do
ClientDo ==
    /\ request.state = "built"
    /\ request' = [state |-> "sent", authorization |-> RoundTrip(httpClient)]
    /\ UNCHANGED <<options, httpClient>>

\* a caller is about to call NewClient with a list of options
InitOptions ==
    /\ PollerIdle
    /\ FetcherIdle
    /\ ServicesIdle
    /\ GenIdle
    /\ SharedIdle
    /\ ConfigIdle
    /\ DownloaderIdle
    /\ options \in SeqsUpTo(Options, MaxOptions)
    /\ httpClient = HTTPClient(DefaultClientTimeout, NilTransport)
    /\ request = NoRequestSent

outsideClient == <<vars, fetcherVars, serviceVars, genVars, sharedVars, configVars, downloaderVars>>

NextOptions ==
    \/ NewClientCall /\ UNCHANGED outsideClient
    \/ ClientDo /\ UNCHANGED outsideClient

SpecOptions == InitOptions /\ [][NextOptions]_allVars

\* the option list holds WithAuth, with one token throughout
AuthToken(opts) == {opts[i].token : i \in {j \in 1..Len(opts) : opts[j].name = "WithAuth"}}

\* C21: when the options of NewClient contain WithAuth(token), a request sent
\* by the client carries the header Authorization: Bearer <token>, wherever
\* WithAuth stands among WithHTTPClient and WithTimeout and whatever transport
\* the supplied HTTP client has.
C21_AuthHeaderOnEveryRequest ==
    (request.state = "sent" /\ Cardinality(AuthToken(options)) = 1)
        => \E t \in AuthToken(options) : request.authorization = TxtBearer \o t

\* ======================================================== Config.Validate
\* bound of the model: the largest duration, in seconds, a Config is given
MaxDuration == 2

\* the defaults of Validate, in seconds
DefaultHTTPTimeout == 60
DefaultWaitTimeout == 900
DefaultWaitInterval == 5

\* "URL GitHub requise"
TxtURLRequired == <<"U","R","L"," ","G","i","t","H","u","b"," ","r","e","q","u","i","s","e">>
\* "URL GitHub invalide: doit commencer par https://github.com/"
TxtURLInvalid == <<"U","R","L"," ","G","i","t","H","u","b"," ","i","n","v","a","l","i","d","e",":"," ","d","o","i","t"," ","c","o","m","m","e","n","c","e","r"," ","p","a","r"," ","h","t","t","p","s",":","/","/","g","i","t","h","u","b",".","c","o","m","/">>
\* "URL API invalide: "
TxtAPIURLInvalid == <<"U","R","L"," ","A","P","I"," ","i","n","v","a","l","i","d","e",":"," ">>
\* "invalid URL escape"
TxtInvalidEscape == <<"i","n","v","a","l","i","d"," ","U","R","L"," ","e","s","c","a","p","e">>
\* "https://gitlab.com/o/r"
TxtOtherHostURL == <<"h","t","t","p","s",":","/","/","g","i","t","l","a","b",".","c","o","m","/","o","/","r">>
\* "http://h/%zz"
TxtBadAPIURL == <<"h","t","t","p",":","/","/","h","/","%","z","z">>
\* "./output"
TxtDefaultOutputDir == <<".","/","o","u","t","p","u","t">>

HexDigits == {"0","1","2","3","4","5","6","7","8","9","a","b","c","d","e","f","A","B","C","D","E","F"}

\* url.Parse rejects a "%" that is not followed by two hexadecimal digits
urlParse(u) ==
    IF \E i \in 1..Len(u) :
          /\ u[i] = "%"
          /\ (i + 2 > Len(u) \/ u[i + 1] \notin HexDigits \/ u[i + 2] \notin HexDigits)
    THEN ErrorString(TxtInvalidEscape)
    ELSE NoErr

\* the Configs runGenerate may build from the command line: durations come
\* from flags and may be negative
Configs ==
    [gitHubURL : {<<>>, TxtOtherHostURL, TxtConfigURL},
     apiBaseURL : {TxtBaseURL, TxtBadAPIURL},
     outputDir : {<<>>, TxtOutputDir},
     timeout : (0 - 1)..MaxDuration,
     waitTimeout : (0 - 1)..MaxDuration,
     waitInterval : (0 - 1)..MaxDuration]

\* Config.Validate: the error returned and the Config it leaves
Validate(c) ==
    IF c.gitHubURL = <<>>
    THEN [err |-> ErrorString(TxtURLRequired), config |-> c]
    ELSE IF ~HasPrefix(c.gitHubURL, TxtGitHubPrefix)
    THEN [err |-> ErrorString(TxtURLInvalid), config |-> c]
    ELSE IF urlParse(c.apiBaseURL) /= NoErr
    THEN [err |-> Errorf(TxtAPIURLInvalid, urlParse(c.apiBaseURL)), config |-> c]
    ELSE [err |-> NoErr,
          config |-> [c EXCEPT
                        !.outputDir = IF @ = <<>> THEN TxtDefaultOutputDir ELSE @,
                        !.timeout = IF @ = 0 THEN DefaultHTTPTimeout ELSE @,
                        !.waitTimeout = IF @ = 0 THEN DefaultWaitTimeout ELSE @,
                        !.waitInterval = IF @ = 0 THEN DefaultWaitInterval ELSE @]]

\* runGenerate: config.Validate()
ValidateCall ==
    /\ cpc = "new"
    /\ config' = Validate(config).config
    /\ cpc' = IF Validate(config).err /= NoErr THEN "rejected" ELSE "valid"

\* Generate reaches createAndWaitJob: WaitForCompletion runs
\* time.NewTicker(config.WaitInterval), which panics on a non-positive interval
StartTicker ==
    /\ cpc = "valid"
    /\ cpc' = IF config.waitInterval <= 0 THEN "panic" ELSE "polling"
    /\ UNCHANGED config

InitConfig ==
    /\ PollerIdle
    /\ FetcherIdle
    /\ ServicesIdle
    /\ GenIdle
    /\ SharedIdle
    /\ ClientIdle
    /\ DownloaderIdle
    /\ config \in Configs
    /\ cpc = "new"

outsideConfig == <<vars, fetcherVars, serviceVars, genVars, sharedVars, clientVars, downloaderVars>>

NextConfig ==
    \/ ValidateCall /\ UNCHANGED outsideConfig
    \/ StartTicker /\ UNCHANGED outsideConfig

SpecConfig == InitConfig /\ [][NextConfig]_allVars

\* C29: once Validate has returned nil, Timeout, WaitTimeout and WaitInterval
\* are strictly positive, and the ticker of the polling loop is never created
\* with a non-positive interval.
C29_ValidatedDurationsPositive ==
    /\ cpc \in {"valid", "polling", "panic"}
         => (config.timeout > 0 /\ config.waitTimeout > 0 /\ config.waitInterval > 0)
    /\ cpc /= "panic"

\* ===================================== one GitHubDownloader, several calls
\* bound of the model: the number of DownloadRepo calls on one downloader
MaxCalls == 2

\* the timeout NewGitHubDownloader gives the HTTP client, in seconds
DownloaderTimeout == 30

\* the goroutines that call DownloadRepo on the same GitHubDownloader
Callers == 1..MaxCalls

\* the locals of a call that has not started
NewDownload == [pc |-> "enter", exit |-> "none", originalTimeout |-> 0, used |-> 0]

\* the returns of DownloadRepo that come after the timeout was cleared: the
\* error of Do, an HTTP status other than 200, the errors of os.CreateTemp
\* and io.Copy, and the return of extractRepo
ExitsAfterClear == {"do", "status", "createTemp", "copy", "extractRepo"}

\* DownloadRepo up to http.NewRequestWithContext: an invalid URL returns here
DlParse(p) ==
    /\ dl[p].pc = "enter"
    /\ \E url \in RepoURLs :
         LET parsed == parseGitHubURL(url)
             ok == ~(parsed.owner = <<>> \/ parsed.repo = <<>>)
         IN dl' = [dl EXCEPT ![p].pc = IF ok THEN "parsed" ELSE "done",
                             ![p].exit = IF ok THEN "none" ELSE "invalidURL"]
    /\ UNCHANGED dlTimeout

\* originalTimeout := d.httpClient.Timeout
DlSave(p) ==
    /\ dl[p].pc = "parsed"
    /\ dl' = [dl EXCEPT ![p].pc = "saved", ![p].originalTimeout = dlTimeout]
    /\ UNCHANGED dlTimeout

\* d.httpClient.Timeout = 0
DlClear(p) ==
    /\ dl[p].pc = "saved"
    /\ dlTimeout' = 0
    /\ dl' = [dl EXCEPT ![p].pc = "cleared"]

\* d.httpClient.Do(req) with the timeout the client has at that moment, and
\* the rest of the body up to its return (error, HTTP status, copy, extraction)
DlDo(p) ==
    /\ dl[p].pc = "cleared"
    /\ \E exit \in ExitsAfterClear :
         dl' = [dl EXCEPT ![p].pc = "returning", ![p].used = dlTimeout, ![p].exit = exit]
    /\ UNCHANGED dlTimeout

\* the deferred d.httpClient.Timeout = originalTimeout
DlRestore(p) ==
    /\ dl[p].pc = "returning"
    /\ dlTimeout' = dl[p].originalTimeout
    /\ dl' = [dl EXCEPT ![p].pc = "done"]

\* NewGitHubDownloader, then the calls start
InitDownloads ==
    /\ PollerIdle
    /\ FetcherIdle
    /\ ServicesIdle
    /\ GenIdle
    /\ SharedIdle
    /\ ClientIdle
    /\ ConfigIdle
    /\ dlTimeout = DownloaderTimeout
    /\ dl = [p \in Callers |-> NewDownload]

outsideDownloader == <<vars, fetcherVars, serviceVars, genVars, sharedVars, clientVars, configVars>>

NextDownloads ==
    \E p \in Callers :
       \/ DlParse(p) /\ UNCHANGED outsideDownloader
       \/ DlSave(p) /\ UNCHANGED outsideDownloader
       \/ DlClear(p) /\ UNCHANGED outsideDownloader
       \/ DlDo(p) /\ UNCHANGED outsideDownloader
       \/ DlRestore(p) /\ UNCHANGED outsideDownloader

SpecDownloads == InitDownloads /\ [][NextDownloads]_allVars

\* C30: whenever no DownloadRepo call is between its save and its restore -
\* each call has not started, has returned, or stands before the save - the
\* timeout of the downloader's HTTP client is the one NewGitHubDownloader
\* gave it, under every interleaving of the calls.
C30_TimeoutRestoredAfterCalls ==
    (\A p \in Callers : dl[p].pc \in {"enter", "parsed", "done"})
        => dlTimeout = DownloaderTimeout

\* ================================= WaitForCompletion and a silent server
\* the clients the wait is run with: the one of NewClient, and two without
\* timeout on their HTTP client
LiveOptions ==
    {<<>>,
     <<[name |-> "WithTimeout", timeout |-> 0, token |-> <<>>, client |-> HTTPClient(0, NilTransport)]>>,
     <<[name |-> "WithHTTPClient", timeout |-> 0, token |-> <<>>, client |-> HTTPClient(0, NilTransport)]>>}

\* the server accepts the request of s.Get and never answers it
FetchHangs ==
    /\ pc = "fetch"
    /\ pc' = "hung"
    /\ UNCHANGED <<argVars, jobID, createResp, now, ctxVars, timerVars, tickPending, woke,
                   fetches, polls, result>>

\* the request that gets no answer ends when its context is done or when the
\* timeout of the HTTP client, if it has one, expires: s.Get(ctx, jobID) runs
\* on the caller's ctx, not on waitCtx
HungFetchEnds ==
    /\ pc = "hung"
    /\ CtxDone \/ httpClient.timeout > 0
    /\ LET resp == IF CtxDone THEN CtxAbort(ctxErr) ELSE TransportFailure("clienttimeout")
       IN /\ polls' = Append(polls, resp)
          /\ AfterGet(Get(jobID, resp))
    /\ UNCHANGED <<argVars, jobID, createResp, now, ctxVars, tickPending, woke, fetches>>

\* WaitForCompletion is called at time 0 with a positive Timeout that ends
\* within the clock's range
InitLive ==
    /\ call = "WaitForCompletion"
    /\ optsNil = FALSE
    /\ optInterval \in 1..MaxInterval
    /\ optTimeout \in 1..MaxTimeout
    /\ jobID \in JobIDs
    /\ createResp = NoResp
    /\ pc = "call"
    /\ now = 0
    /\ ctxErr = "none"
    /\ ctxDoneAt = -1
    /\ enteredAt = -1
    /\ waitActive = FALSE
    /\ waitDeadline = 0
    /\ tickerRunning = FALSE
    /\ nextTick = 0
    /\ tickPending = FALSE
    /\ woke = "none"
    /\ fetches = 0
    /\ polls = <<>>
    /\ result = Outcome(NilJob, NoErr)
    /\ FetcherIdle
    /\ ServicesIdle
    /\ GenIdle
    /\ SharedIdle
    /\ ConfigIdle
    /\ DownloaderIdle
    /\ options \in LiveOptions
    /\ httpClient = NewClientWith(options)
    /\ request = [state |-> "built", authorization |-> <<>>]

\* the steps the Go runtime, the clock and the network take sooner or later
LiveCall == Call /\ UNCHANGED outsidePoller
LiveSelect == Select /\ UNCHANGED outsidePoller
LiveWake == Wake /\ UNCHANGED outsidePoller
LiveFetchReturn == FetchReturn /\ UNCHANGED outsidePoller
LiveAdvance == Advance /\ UNCHANGED outsidePoller
LiveHungFetchEnds == HungFetchEnds /\ UNCHANGED outsidePoller

NextLive ==
    \/ LiveCall
    \/ LiveSelect
    \/ LiveWake
    \/ LiveFetchReturn
    \/ LiveAdvance
    \/ LiveHungFetchEnds
    \/ CtxEnd /\ UNCHANGED outsidePoller
    \/ FetchHangs /\ UNCHANGED outsidePoller

\* the goroutine runs, time passes, timers fire and a request that can end
\* ends; the caller need not cancel and the server need not answer
SpecLive ==
    /\ InitLive
    /\ [][NextLive]_allVars
    /\ WF_allVars(LiveCall)
    /\ WF_allVars(LiveSelect)
    /\ WF_allVars(LiveWake)
    /\ WF_allVars(LiveFetchReturn)
    /\ WF_allVars(LiveAdvance)
    /\ WF_allVars(LiveHungFetchEnds)

\* C23: every call of WaitForCompletion with a positive finite Timeout
\* eventually returns, whatever the remote service does.
C23_WaitEventuallyReturns == <>(pc = "done")
====
